---- MODULE Spec2Model ----
(***************************************************************************)
(* State-machine model of the summary server (src/server.js): the task     *)
(* record store, the audio directory, the object store and its singleton   *)
(* client, the LLM configuration document, and the request handlers of     *)
(* the pipeline-triggering endpoints.  A handler is a sequence of steps,   *)
(* one per group of awaits; the store is only touched inside a step.       *)
(*                                                                         *)
(* Strings that the code builds by concatenation are sequences of          *)
(* segments, so "the summary contains the error text" is a subsequence     *)
(* test.  The segments are English renderings of the messages in the code. *)
(***************************************************************************)
EXTENDS Integers, Sequences, FiniteSets, TLC

\* ------------------------------------------------------------------ bounds
\* ids of the task documents that requests may address
TaskIds == {"t1"}
\* request slots: handlers that may be in flight at the same time
Reqs == {"r1", "r2"}
\* the task ids of the specifications about two tasks
TwoTasks == {"t1", "t2"}
\* the slot used when requests are served one after the other
Serial == {"r1"}
\* history counter of the puts an object key has received saturates here
MaxPuts == 2
\* entries in result.output.results of a transcription job
MaxEntries == 2
\* createOSSClient() calls that may be in flight at the same time
Callers == {"a1", "a2"}
\* client handles that new OSS(...) builds in one run
MaxClients == 2
\* bytes in an audio file at the start
MaxBytes == 2
\* segments of a fetched page
MaxSegments == 3
\* data blocks the recorders of the UI deliver
MaxChunks == 2

\* ------------------------------------------------------- program constants
\* const maxAttempts = 30 in the poll loop
maxAttempts == 30
\* text.substring(0, 10000) in fetchWebPageContent
maxContentLength == 10000

VARIABLES
  tasks,               \* STORAGE_DIR: task id -> stored task document
  audioDir,            \* AUDIO_DIR: the set of file names <<base, ext>>
  llmConfig,           \* CONFIG_DIR/llmConfig.json
  ossFileConfig,       \* CONFIG_DIR/ossConfig.json is present (and complete)
  ossEnv,              \* the four OSS_* environment variables are set
                       \* (fixed when the process starts)
  ossClientInstance,   \* the singleton client handle
  ossClientInitialized,
  ossObjects,          \* the remote bucket: set of [key, src, puts]
  ossDeleted,          \* keys for which the server issued client.delete
  req,                 \* request slot -> state of the handler in flight
  ossConstructed,      \* number of client handles built by new OSS(...)
  acquire,             \* caller -> state of its createOSSClient() call
  afterReset,          \* history: resetOSSClient() has run and no
                       \* createOSSClient() call has begun since
  extraction,          \* the text extraction of one SUCCEEDED job's result
  audioData,           \* file name -> bytes of the files in AUDIO_DIR
  ui                   \* the task page of the UI: its refs, its recorders and
                       \* the requests its last handler has sent

\* the state outside the task pipeline
others == <<ossConstructed, acquire, afterReset, extraction, audioData, ui>>

vars == <<tasks, audioDir, llmConfig, ossFileConfig, ossEnv, ossClientInstance,
          ossClientInitialized, ossObjects, ossDeleted, req, others>>

\* ------------------------------------------------------------------ values
Undefined == <<>>

Types == {"webpage", "video", "live"}
Statuses == {"pending", "processing", "completed", "failed"}

\* message texts of the remote services (inputs of the model)
NetError == "network error"
FailMessages == {"bad audio"}
PageText == <<"page text">>
LLMSummary == <<"# Summary">>

\* the text s contains the text e
ContainsText(s, e) ==
  \E k \in 0..(Len(s) - Len(e)) : SubSeq(s, k + 1, k + Len(e)) = e

\* the task document the UI creates (status pending)
NewTask(id, type) ==
  [id |-> id, type |-> type, status |-> "pending", content |-> Undefined,
   summary |-> Undefined, isRecording |-> FALSE, audioFile |-> Undefined]

NoTask == [id |-> "-", type |-> "-", status |-> "-", content |-> Undefined,
           summary |-> Undefined, isRecording |-> FALSE, audioFile |-> Undefined]

\* readTask succeeds iff the document exists
TaskExists(id) == id \in DOMAIN tasks

\* every document of the store is replaced by the one that is saved
saveTask_OneFile(store, task) == [id \in DOMAIN store \cup {task.id} |-> task]
\* saveTask writes the whole document under its id
saveTask(store, task) == (task.id :> task) @@ store

\* deleteTask unlinks the document, a missing document is not an error
deleteTask(store, id) == [k \in DOMAIN store \ {id} |-> store[k]]

\* ${taskId}.webm in AUDIO_DIR
CanonicalFile(id) == <<id, "webm">>

\* no terminal answer of the job service received
NoReply == [status |-> "", message |-> ""]

\* the four settings new OSS(...) needs
OssFields == {"region", "accessKeyId", "accessKeySecret", "bucket"}

\* a setting without a value reads as undefined: "" here
NoOSSConfig == [f \in OssFields |-> ""]

\* process.env with the OSS_* variables of the fields in set
EnvConfig(set) == [f \in OssFields |-> IF f \in set THEN "env" ELSE ""]

\* CONFIG_DIR/ossConfig.json does not exist: fs.readFile rejects
NoConfigFile ==
  [exists |-> FALSE, region |-> "", access_id |-> "", accessKeyId |-> "",
   access_secret |-> "", accessKeySecret |-> "", bucket |-> ""]

\* the document POST /api/oss-config writes: { region, access_id,
\* access_secret, bucket }, v names the values the user entered
ConfigFile(v) ==
  [exists |-> TRUE, region |-> v, access_id |-> v, accessKeyId |-> "",
   access_secret |-> v, accessKeySecret |-> "", bucket |-> v]

\* a || b
Or(a, b) == IF a # "" THEN a ELSE b

\* !region || !accessKeyId || !accessKeySecret || !bucket is false
Complete(ossConfig) == \A f \in OssFields : ossConfig[f] # ""

\* ossConfig after the stored document has been read; a read that failed
\* leaves ossConfig as it was
mergeFileConfig(ossConfig, fileConfig) ==
  IF ~fileConfig.exists THEN ossConfig
  ELSE [region |-> Or(fileConfig.region, ossConfig.region),
        accessKeyId |-> Or(fileConfig.access_id,
                           Or(fileConfig.accessKeyId, ossConfig.accessKeyId)),
        accessKeySecret |-> Or(fileConfig.access_secret,
                               Or(fileConfig.accessKeySecret, ossConfig.accessKeySecret)),
        bucket |-> Or(fileConfig.bucket, ossConfig.bucket)]

\* values a caller of createOSSClient can hold: null, a client handle (the
\* serial-th object built by new OSS with the given settings), or the pending
\* Promise of a call that was not awaited
NoClient == [kind |-> "null", serial |-> 0, config |-> NoOSSConfig]
Client(serial, ossConfig) == [kind |-> "client", serial |-> serial, config |-> ossConfig]
PendingPromise == [kind |-> "promise", serial |-> 0, config |-> NoOSSConfig]

\* a createOSSClient() call: pc is "idle" (not called), "readFile" (awaiting
\* fs.readFile of the stored document), "resume" (the read has settled, the
\* continuation has not run yet) or "returned"; ossConfig and fileConfig are
\* the call's locals; result is the value the call resolved to; resolved
\* tells that the call read the configuration instead of answering from the
\* cache
NotCalled ==
  [pc |-> "idle", ossConfig |-> NoOSSConfig, fileConfig |-> NoConfigFile,
   result |-> NoClient, resolved |-> FALSE]

\* op, id: route and task id of the request; pc: the await the handler is at;
\* task: the handler's local task object; attempts: the poll loop's counter;
\* reply: the status query's answer that ended the loop; err: the error
\* thrown; code: the status code of the response; client: the value the
\* handler got from createOSSClient; caller: the createOSSClient() call the
\* handler started without awaiting it; invoked: the store method the
\* handler has called on client; file, key: the arguments of a call of
\* uploadFileToOSS; url: the value that call returned; before: history, the
\* file contents a call of mergeAudioFiles or stopLiveRecording found
Idle == [op |-> "idle", id |-> "-", pc |-> "idle", task |-> NoTask,
         attempts |-> 0, reply |-> NoReply, err |-> Undefined, code |-> 0,
         client |-> NoClient, caller |-> "-", invoked |-> "none",
         file |-> Undefined, key |-> Undefined, url |-> Undefined,
         before |-> Undefined]

\* the extraction about to start on result.output.results = results
Extracting(results) ==
  [results |-> results, i |-> 1, transcriptionText |-> <<>>, pc |-> "loop",
   accumulated |-> <<>>, out |-> <<>>]

\* the task page after mounting: useRef(null), useRef([]), useRef(null),
\* no recorder, nothing sent
UiInit ==
  [mediaRecorderRef |-> "null", currentTaskIdRef |-> "null", audioChunksRef |-> <<>>,
   recorder |-> [id \in TwoTasks |-> "none"],
   isRecording |-> [id \in TwoTasks |-> FALSE],
   sent |-> {}, last |-> [handler |-> "none", id |-> "null"]]

\* the state when the process has started with the given environment, the
\* given stored document and the given files (name -> bytes) in the audio
\* directory;
\* results is the result of the transcription job that will be extracted
StartWith(env, file, data, results) ==
  /\ tasks = <<>>
  /\ audioDir = DOMAIN data
  /\ audioData = data
  /\ llmConfig = "null"
  /\ ossFileConfig = file
  /\ ossEnv = env
  /\ ossClientInstance = NoClient
  /\ ossClientInitialized = FALSE
  /\ ossObjects = {}
  /\ ossDeleted = {}
  /\ req = [r \in Reqs |-> Idle]
  /\ ossConstructed = 0
  /\ acquire = [c \in Callers |-> NotCalled]
  /\ afterReset = FALSE
  /\ extraction = Extracting(results)
  /\ ui = UiInit

\* the start on an installation without stored document and without files
Start(env, results) == StartWith(env, NoConfigFile, <<>>, results)

\* no OSS_* variable is set
Init == Start(NoOSSConfig, <<>>)

\* ------------------------------------------------------------ file system
\* data without the file f
Unlink(data, f) == [g \in (DOMAIN data) \ {f} |-> data[g]]

\* data with bytes written to the file f
WriteFile(data, f, bytes) ==
  [g \in (DOMAIN data) \cup {f} |-> IF g = f THEN bytes ELSE data[g]]

\* fs.rename(from, to)
Rename(data, from, to) ==
  IF from = to THEN data ELSE Unlink(WriteFile(data, to, data[from]), from)

\* bodies of the audio uploads multer stores
UploadBodies == {<<1>>, <<2>>}

\* --------------------------------------------------------- request helpers
\* the handler in slot r answers with the given status code
Respond(r, q, code) ==
  req' = [req EXCEPT ![r] = [q EXCEPT !.pc = "done", !.code = code, !.task = NoTask]]

\* the handler in slot r throws: control passes to the route's catch block
Throw(r, q, e) == req' = [req EXCEPT ![r] = [q EXCEPT !.pc = "catch", !.err = e]]

\* a request of route op for task id arriving in slot r
Arrive(op, id) == [Idle EXCEPT !.op = op, !.id = id]

\* readTask's error for a missing document
ReadTaskError == <<"read task failed: ", "ENOENT">>

\* --------------------------------------------------- summarization client
LLMConfigs == {"null", "nokey", "complete"}
LLMReplies == {"ok", "non2xx", "noresponse", "nochoices"}

\* a field of llmConfig.json that is absent or empty
NoValue == ""

\* the stored document behind each configuration; getLLMConfig returns
\* null for "null" and the callers stop before the client is called
LLMDocument(cfg) ==
  [baseUrl |-> IF cfg = "null" THEN NoValue ELSE "https://llm.example/v1",
   model   |-> IF cfg = "null" THEN NoValue ELSE "model-1",
   apiKey  |-> IF cfg = "complete" THEN "sk-1" ELSE NoValue]

\* what axios.post comes back with: status "0" stands for no response at
\* all (error.response undefined), choices for response.data.choices
UpstreamBody == "upstream body"
NoAnswer == [status |-> "0", body |-> "", choices |-> <<>>]
LLMAnswer(reply) ==
  IF reply = "ok" THEN [status |-> "200", body |-> "", choices |-> <<LLMSummary>>]
  ELSE IF reply = "non2xx" THEN [status |-> "500", body |-> UpstreamBody, choices |-> <<>>]
  ELSE IF reply = "nochoices" THEN [status |-> "200", body |-> "", choices |-> <<>>]
  ELSE NoAnswer

\* axios resolves for a status of 2xx and rejects otherwise
Is2xx(status) == status \in {"200", "201"}

\* only the API key is checked before the request is sent
generateSummaryWithLLM_KeyOnly(config, answer) ==
  IF config.apiKey = NoValue
    THEN [ok |-> FALSE, posted |-> FALSE,
          text |-> <<"call LLM failed: ", "LLM config incomplete">>]
  ELSE IF answer = NoAnswer
    THEN [ok |-> FALSE, posted |-> TRUE, text |-> <<"call LLM failed: ", NetError>>]
  ELSE IF ~Is2xx(answer.status)
    THEN [ok |-> FALSE, posted |-> TRUE,
          text |-> <<"LLM API error: ", answer.status, " - ", answer.body>>]
  ELSE IF Len(answer.choices) > 0
    THEN [ok |-> TRUE, posted |-> TRUE, text |-> answer.choices[1]]
  ELSE [ok |-> FALSE, posted |-> TRUE,
        text |-> <<"call LLM failed: ", "LLM returned no content">>]

\* generateSummaryWithLLM(content, llmConfig) with the answer the endpoint
\* gives; posted tells whether axios.post was called
generateSummaryWithLLM(config, answer) ==
  IF config.baseUrl = NoValue \/ config.model = NoValue \/ config.apiKey = NoValue
    THEN [ok |-> FALSE, posted |-> FALSE,
          text |-> <<"call LLM failed: ", "LLM config incomplete">>]
  ELSE IF answer = NoAnswer
    THEN [ok |-> FALSE, posted |-> TRUE, text |-> <<"call LLM failed: ", NetError>>]
  ELSE IF ~Is2xx(answer.status)
    THEN [ok |-> FALSE, posted |-> TRUE,
          text |-> <<"LLM API error: ", answer.status, " - ", answer.body>>]
  ELSE IF Len(answer.choices) > 0
    THEN [ok |-> TRUE, posted |-> TRUE, text |-> answer.choices[1]]
  ELSE [ok |-> FALSE, posted |-> TRUE,
        text |-> <<"call LLM failed: ", "LLM returned no content">>]

\* the documents a user may have stored: each field set or missing
LLMDocuments ==
  [baseUrl : {NoValue, "https://llm.example/v1"}, model : {NoValue, "model-1"},
   apiKey : {NoValue, "sk-1"}]

\* the answers of the endpoint
OtherChoice == <<"second choice">>
LLMAnswers ==
  {NoAnswer} \cup
  [status : {"200", "201", "429", "500"}, body : {"", UpstreamBody},
   choices : {<<>>, <<LLMSummary>>, <<LLMSummary, OtherChoice>>, <<OtherChoice, LLMSummary>>}]

\* one call of the client in slot r: the slot keeps the configuration, the
\* answer and the outcome
GenerateSummaryCall(r, config, answer) ==
  /\ req[r].pc = "idle"
  /\ req' = [req EXCEPT ![r] =
              [Arrive("generateSummaryWithLLM", "-") EXCEPT
                 !.pc = "done", !.file = config, !.reply = answer,
                 !.before = generateSummaryWithLLM(config, answer)]]
  /\ UNCHANGED <<tasks, audioDir, llmConfig, ossFileConfig, ossEnv, ossClientInstance,
                 ossClientInitialized, ossObjects, ossDeleted, others>>

\* fetchWebPageContent: the extracted text, or the wrapped request error
fetchWebPageContent(ok) ==
  IF ok THEN [ok |-> TRUE, text |-> PageText]
        ELSE [ok |-> FALSE, text |-> <<"fetch page failed: ", NetError>>]

\* ------------------------------------------- POST /api/process-webpage/:id
ProcessWebpageDone(task, summary) ==
  [task EXCEPT !.summary = summary, !.status = "completed"]

\* the failure is recorded without its cause
ProcessWebpageFailed_NoCause(task, err) ==
  [task EXCEPT !.status = "failed", !.summary = <<"processing failed">>]

ProcessWebpageFailed(task, err) ==
  [task EXCEPT !.status = "failed", !.summary = <<"processing failed: ">> \o err]

ProcessWebpage(r, id) ==
  /\ req[r].pc = "idle"
  /\ LET q == Arrive("process-webpage", id) IN
     IF ~TaskExists(id)
       THEN Throw(r, q, ReadTaskError) /\ UNCHANGED tasks
     ELSE IF tasks[id].type # "webpage"
       THEN Respond(r, q, 400) /\ UNCHANGED tasks
     ELSE LET task == [tasks[id] EXCEPT !.status = "processing"] IN
          /\ tasks' = saveTask(tasks, task)
          /\ req' = [req EXCEPT ![r] = [q EXCEPT !.pc = "fetch", !.task = task]]
  /\ UNCHANGED <<audioDir, llmConfig, ossFileConfig, ossEnv, ossClientInstance,
                 ossClientInitialized, ossObjects, ossDeleted, others>>

\* the fetched text is kept in memory and not written to the record
ProcessWebpageFetch_NotPersisted(r) ==
  /\ req[r].op = "process-webpage" /\ req[r].pc = "fetch"
  /\ \E ok \in BOOLEAN :
       LET q == req[r]
           content == fetchWebPageContent(ok) IN
       IF content.ok
         THEN LET task == [q.task EXCEPT !.content = content.text] IN
              /\ UNCHANGED tasks
              /\ req' = [req EXCEPT ![r] = [q EXCEPT !.pc = "summarize", !.task = task]]
         ELSE Throw(r, q, content.text) /\ UNCHANGED tasks
  /\ UNCHANGED <<audioDir, llmConfig, ossFileConfig, ossEnv, ossClientInstance,
                 ossClientInitialized, ossObjects, ossDeleted, others>>

ProcessWebpageFetch(r) ==
  /\ req[r].op = "process-webpage" /\ req[r].pc = "fetch"
  /\ \E ok \in BOOLEAN :
       LET q == req[r]
           content == fetchWebPageContent(ok) IN
       IF content.ok
         THEN LET task == [q.task EXCEPT !.content = content.text] IN
              /\ tasks' = saveTask(tasks, task)
              /\ req' = [req EXCEPT ![r] = [q EXCEPT !.pc = "summarize", !.task = task]]
         ELSE Throw(r, q, content.text) /\ UNCHANGED tasks
  /\ UNCHANGED <<audioDir, llmConfig, ossFileConfig, ossEnv, ossClientInstance,
                 ossClientInitialized, ossObjects, ossDeleted, others>>

\* the last stage re-reads the record and adds its outputs to what is stored
ProcessWebpageSummarize_Reread(r) ==
  /\ req[r].op = "process-webpage" /\ req[r].pc = "summarize"
  /\ LET q == req[r] IN
     IF llmConfig = "null"
       THEN Throw(r, q, <<"configure the LLM parameters first">>) /\ UNCHANGED tasks
       ELSE \E reply \in LLMReplies :
              LET summary == generateSummaryWithLLM(LLMDocument(llmConfig), LLMAnswer(reply)) IN
              IF summary.ok
                THEN LET stored == IF TaskExists(q.id) THEN tasks[q.id] ELSE q.task
                         task == ProcessWebpageDone([stored EXCEPT !.content = q.task.content],
                                                    summary.text) IN
                     /\ tasks' = saveTask(tasks, task)
                     /\ Respond(r, q, 200)
                ELSE Throw(r, q, summary.text) /\ UNCHANGED tasks
  /\ UNCHANGED <<audioDir, llmConfig, ossFileConfig, ossEnv, ossClientInstance,
                 ossClientInitialized, ossObjects, ossDeleted, others>>

ProcessWebpageSummarize(r) ==
  /\ req[r].op = "process-webpage" /\ req[r].pc = "summarize"
  /\ LET q == req[r] IN
     IF llmConfig = "null"
       THEN Throw(r, q, <<"configure the LLM parameters first">>) /\ UNCHANGED tasks
       ELSE \E reply \in LLMReplies :
              LET summary == generateSummaryWithLLM(LLMDocument(llmConfig), LLMAnswer(reply)) IN
              IF summary.ok
                THEN LET task == ProcessWebpageDone(q.task, summary.text) IN
                     /\ tasks' = saveTask(tasks, task)
                     /\ Respond(r, q, 200)
                ELSE Throw(r, q, summary.text) /\ UNCHANGED tasks
  /\ UNCHANGED <<audioDir, llmConfig, ossFileConfig, ossEnv, ossClientInstance,
                 ossClientInitialized, ossObjects, ossDeleted, others>>

ProcessWebpageCatch(r) ==
  /\ req[r].op = "process-webpage" /\ req[r].pc = "catch"
  /\ IF TaskExists(req[r].id)
       THEN tasks' = saveTask(tasks, ProcessWebpageFailed(tasks[req[r].id], req[r].err))
       ELSE UNCHANGED tasks
  /\ Respond(r, req[r], 500)
  /\ UNCHANGED <<audioDir, llmConfig, ossFileConfig, ossEnv, ossClientInstance,
                 ossClientInitialized, ossObjects, ossDeleted, others>>

\* ------------------------------------------------------ object store client
\* the cache check also answers from a cached failure
CacheHit_FailureCached(inst, init) == init

\* if (ossClientInitialized && ossClientInstance)
CacheHit(inst, init) == init /\ inst # NoClient

\* the end of createOSSClient: completeness check and construction.
\* built: the handles constructed before; ctorOk: new OSS does not throw.
\* Both outcomes set ossClientInitialized = true.
constructOSSClient(ossConfig, built, ctorOk) ==
  IF ~Complete(ossConfig) THEN NoClient
  ELSE IF ctorOk THEN Client(built + 1, ossConfig)
  ELSE NoClient

\* createOSSClient run without interruption: the singleton state after the
\* call, .inst is also the value the call resolves to
createOSSClient(inst, init, env, file, built, ctorOk) ==
  IF CacheHit(inst, init)
    THEN [inst |-> inst, init |-> init]
  ELSE LET ossConfig == IF Complete(env) THEN env ELSE mergeFileConfig(env, file)
       IN [inst |-> constructOSSClient(ossConfig, built, ctorOk), init |-> TRUE]

\* the headers of both put calls: { 'x-oss-object-acl': 'public-read' }
PutAcl == "public-read"

\* client.put(key, localPath, {headers}): the bucket holds one object per key
OssPut(objects, key, src) ==
  LET old == {o \in objects : o.key = key}
      n == IF old = {} THEN 1
           ELSE LET m == (CHOOSE o \in old : TRUE).puts IN
                IF m < MaxPuts THEN m + 1 ELSE MaxPuts
  IN (objects \ old) \cup {[key |-> key, src |-> src, puts |-> n, acl |-> PutAcl]}

\* result.url: the address of the object key in the client's bucket
ObjectUrl(client, key) ==
  <<"http://", client.config.bucket, ".", client.config.region, "/">> \o key

\* uploadFileToOSS(localFilePath, ossFileName) given the client returned by
\* createOSSClient, the files on disk and the outcome of the remote put
\* (.put: client.put was called; .ok: the call returned, .text is then the
\* URL, else the message of the error thrown); this one puts without looking
\* for the local file
uploadFileToOSS_NoAccessCheck(client, files, localFilePath, key, putOk) ==
  IF client = NoClient
    THEN [ok |-> FALSE, put |-> FALSE, text |-> <<"OSS configuration incomplete">>]
  ELSE IF ~putOk
    THEN [ok |-> FALSE, put |-> TRUE, text |-> <<"upload to OSS failed: ", NetError>>]
  ELSE [ok |-> TRUE, put |-> TRUE, text |-> ObjectUrl(client, key)]

uploadFileToOSS(client, files, localFilePath, key, putOk) ==
  IF client = NoClient
    THEN [ok |-> FALSE, put |-> FALSE, text |-> <<"OSS configuration incomplete">>]
  ELSE IF localFilePath \notin files
    THEN [ok |-> FALSE, put |-> FALSE,
          text |-> <<"upload to OSS failed: ", "local file does not exist">>]
  ELSE IF ~putOk
    THEN [ok |-> FALSE, put |-> TRUE, text |-> <<"upload to OSS failed: ", NetError>>]
  ELSE [ok |-> TRUE, put |-> TRUE, text |-> ObjectUrl(client, key)]

\* --------------------------------------------- POST /api/start-recording/:id
StartRecordingTask(task) ==
  [task EXCEPT !.status = "processing", !.isRecording = TRUE]

StartRecordingFailed(task, err) ==
  [task EXCEPT !.status = "failed", !.summary = <<"processing failed: ">> \o err]

StartRecording(r, id) ==
  /\ req[r].pc = "idle"
  /\ LET q == Arrive("start-recording", id) IN
     IF ~TaskExists(id)
       THEN Throw(r, q, ReadTaskError) /\ UNCHANGED tasks
     ELSE IF tasks[id].type # "live"
       THEN Respond(r, q, 400) /\ UNCHANGED tasks
     ELSE /\ tasks' = saveTask(tasks, StartRecordingTask(tasks[id]))
          /\ Respond(r, q, 200)
  /\ UNCHANGED <<audioDir, llmConfig, ossFileConfig, ossEnv, ossClientInstance,
                 ossClientInitialized, ossObjects, ossDeleted, others>>

StartRecordingCatch(r) ==
  /\ req[r].op = "start-recording" /\ req[r].pc = "catch"
  /\ IF TaskExists(req[r].id)
       THEN tasks' = saveTask(tasks, StartRecordingFailed(tasks[req[r].id], req[r].err))
       ELSE UNCHANGED tasks
  /\ Respond(r, req[r], 500)
  /\ UNCHANGED <<audioDir, llmConfig, ossFileConfig, ossEnv, ossClientInstance,
                 ossClientInitialized, ossObjects, ossDeleted, others>>

\* ---------------------------------------------- POST /api/stop-recording/:id
\* any file whose name starts with the task id counts as the recording
RecordedFiles_Prefix(files, taskId) == {f \in files : f[1] = taskId}

\* stopLiveRecording: the files whose name without extension is the task id
\* (a name is <<base, ext>>; the temp file <<id, "_temp", ext>> has the base
\* `${id}_temp`)
RecordedFiles(files, taskId) == {f \in files : Len(f) = 2 /\ f[1] = taskId}

\* the capture marker is not written to the summary
StopRecordingTask_NoMarker(task) ==
  [task EXCEPT !.status = "completed", !.isRecording = FALSE,
               !.audioFile = CanonicalFile(task.id)]

StopRecordingTask(task) ==
  [task EXCEPT !.status = "completed", !.isRecording = FALSE,
               !.summary = <<"audio recording finished">>,
               !.audioFile = CanonicalFile(task.id)]

StopRecordingFailed(task, err) ==
  [task EXCEPT !.status = "failed", !.isRecording = FALSE,
               !.summary = <<"processing failed: ">> \o err]

StopRecording(r, id) ==
  /\ req[r].pc = "idle"
  /\ LET q == Arrive("stop-recording", id) IN
     IF ~TaskExists(id)
       THEN Throw(r, q, ReadTaskError)
     ELSE IF tasks[id].type # "live"
       THEN Respond(r, q, 400)
     ELSE req' = [req EXCEPT ![r] = [q EXCEPT !.pc = "finalize", !.task = tasks[id]]]
  /\ UNCHANGED <<tasks, audioDir, llmConfig, ossFileConfig, ossEnv, ossClientInstance,
                 ossClientInitialized, ossObjects, ossDeleted, others>>

StopRecordingFinalize(r) ==
  /\ req[r].op = "stop-recording" /\ req[r].pc = "finalize"
  /\ LET q == req[r] IN
     IF RecordedFiles(audioDir, q.task.id) = {}
       THEN Throw(r, q, <<"recorded audio file not found">>)
            /\ UNCHANGED <<tasks, audioDir, audioData>>
       ELSE \E audioFile \in RecordedFiles(audioDir, q.task.id) :
              LET outputFile == CanonicalFile(q.task.id) IN
              /\ audioData' = Rename(audioData, audioFile, outputFile)
              /\ audioDir' = (audioDir \ {audioFile}) \cup {outputFile}
              /\ tasks' = saveTask(tasks, StopRecordingTask(q.task))
              /\ Respond(r, [q EXCEPT !.before = audioData], 200)
  /\ UNCHANGED <<llmConfig, ossFileConfig, ossEnv, ossClientInstance,
                 ossClientInitialized, ossObjects, ossDeleted, ossConstructed, acquire, afterReset, extraction, ui>>

StopRecordingCatch(r) ==
  /\ req[r].op = "stop-recording" /\ req[r].pc = "catch"
  /\ IF TaskExists(req[r].id)
       THEN tasks' = saveTask(tasks, StopRecordingFailed(tasks[req[r].id], req[r].err))
       ELSE UNCHANGED tasks
  /\ Respond(r, req[r], 500)
  /\ UNCHANGED <<audioDir, llmConfig, ossFileConfig, ossEnv, ossClientInstance,
                 ossClientInitialized, ossObjects, ossDeleted, others>>

\* ------------------------------------------- POST /api/upload-audio/:taskId
UploadAudioTask(task) ==
  [task EXCEPT !.status = "processing", !.isRecording = TRUE]

\* hasFile: the multipart body carries the audio field; multer has then
\* already written ${taskId}.webm into the audio directory
UploadAudio(r, id, hasFile) ==
  /\ req[r].pc = "idle"
  /\ LET q == Arrive("upload-audio", id) IN
     IF ~hasFile
       THEN Respond(r, q, 400) /\ UNCHANGED <<tasks, audioDir, audioData>>
       ELSE /\ \E bytes \in UploadBodies :
                 audioData' = WriteFile(audioData, CanonicalFile(id), bytes)
            /\ audioDir' = audioDir \cup {CanonicalFile(id)}
            /\ IF TaskExists(id)
                 THEN tasks' = saveTask(tasks, UploadAudioTask(tasks[id]))
                 ELSE UNCHANGED tasks
            /\ Respond(r, q, 200)
  /\ UNCHANGED <<llmConfig, ossFileConfig, ossEnv, ossClientInstance,
                 ossClientInitialized, ossObjects, ossDeleted, ossConstructed, acquire, afterReset, extraction, ui>>

\* -------------------------------------------- POST /api/recording-failed/:id
\* the failed capture puts the task back to pending
RecordingFailedTask_BackToPending(task) ==
  [task EXCEPT !.status = "pending", !.isRecording = FALSE,
               !.summary = <<"recording start failed">>]

RecordingFailedTask(task) ==
  [task EXCEPT !.status = "failed", !.isRecording = FALSE,
               !.summary = <<"recording start failed">>]

RecordingFailed(r, id) ==
  /\ req[r].pc = "idle"
  /\ LET q == Arrive("recording-failed", id) IN
     IF ~TaskExists(id)
       THEN Respond(r, [q EXCEPT !.err = ReadTaskError], 500) /\ UNCHANGED tasks
     ELSE IF tasks[id].type # "live"
       THEN Respond(r, q, 400) /\ UNCHANGED tasks
     ELSE /\ tasks' = saveTask(tasks, RecordingFailedTask(tasks[id]))
          /\ Respond(r, q, 200)
  /\ UNCHANGED <<audioDir, llmConfig, ossFileConfig, ossEnv, ossClientInstance,
                 ossClientInitialized, ossObjects, ossDeleted, others>>

\* ------------------------------------- POST /api/generate-audio-summary/:id
\* the key is built from the record's audioFile field
ossFileName_FromAudioFile(task) == <<"temp_audio">> \o task.audioFile

\* const ossFileName = `temp_audio/${task.id}.webm`
ossFileName(task) == <<"temp_audio", task.id, "webm">>

\* the cause is written but the status is left as it is
GenerateAudioSummaryFailed_StatusKept(task, err) ==
  [task EXCEPT !.summary = <<"summary generation failed: ">> \o err]

GenerateAudioSummaryFailed(task, err) ==
  [task EXCEPT !.status = "failed", !.summary = <<"summary generation failed: ">> \o err]

\* the record is set to processing before the audio file is looked for
GenerateAudioSummary_SaveFirst(r, id) ==
  /\ req[r].pc = "idle"
  /\ LET q == Arrive("generate-audio-summary", id) IN
     IF ~TaskExists(id)
       THEN Throw(r, q, ReadTaskError) /\ UNCHANGED tasks
     ELSE IF tasks[id].type # "live"
       THEN Respond(r, q, 400) /\ UNCHANGED tasks
     ELSE LET task == [tasks[id] EXCEPT !.status = "processing"] IN
          /\ tasks' = saveTask(tasks, task)
          /\ IF CanonicalFile(id) \notin audioDir
               THEN Respond(r, q, 400)
               ELSE req' = [req EXCEPT ![r] = [q EXCEPT !.pc = "upload", !.task = task]]
  /\ UNCHANGED <<audioDir, llmConfig, ossFileConfig, ossEnv, ossClientInstance,
                 ossClientInitialized, ossObjects, ossDeleted, others>>

GenerateAudioSummary(r, id) ==
  /\ req[r].pc = "idle"
  /\ LET q == Arrive("generate-audio-summary", id) IN
     IF ~TaskExists(id)
       THEN Throw(r, q, ReadTaskError) /\ UNCHANGED tasks
     ELSE IF tasks[id].type # "live"
       THEN Respond(r, q, 400) /\ UNCHANGED tasks
     ELSE IF CanonicalFile(id) \notin audioDir
       THEN Respond(r, q, 400) /\ UNCHANGED tasks
     ELSE LET task == [tasks[id] EXCEPT !.status = "processing"] IN
          /\ tasks' = saveTask(tasks, task)
          /\ req' = [req EXCEPT ![r] = [q EXCEPT !.pc = "upload", !.task = task]]
  /\ UNCHANGED <<audioDir, llmConfig, ossFileConfig, ossEnv, ossClientInstance,
                 ossClientInitialized, ossObjects, ossDeleted, others>>

GenerateAudioSummaryUpload(r) ==
  /\ req[r].op = "generate-audio-summary" /\ req[r].pc = "upload"
  /\ \E ctorOk \in BOOLEAN, putOk \in BOOLEAN :
       LET q == req[r]
           audioFilePath == CanonicalFile(q.task.id)
           client == createOSSClient(ossClientInstance, ossClientInitialized,
                                     ossEnv, ossFileConfig, ossConstructed, ctorOk)
           fileUrl == uploadFileToOSS(client.inst, audioDir, audioFilePath,
                                      ossFileName(q.task), putOk) IN
       /\ client.inst.serial <= MaxClients
       /\ ossClientInstance' = client.inst
       /\ ossClientInitialized' = client.init
       /\ ossConstructed' = IF client.inst.serial > ossConstructed
                              THEN client.inst.serial ELSE ossConstructed
       /\ IF fileUrl.ok
            THEN /\ ossObjects' = OssPut(ossObjects, ossFileName(q.task), audioFilePath)
                 /\ Respond(r, [q EXCEPT !.client = client.inst, !.invoked = "put"], 200)
            ELSE /\ UNCHANGED ossObjects
                 /\ Throw(r, [q EXCEPT !.client = client.inst,
                                       !.invoked = IF fileUrl.put THEN "put" ELSE "none"],
                          fileUrl.text)
  /\ afterReset' = FALSE
  /\ UNCHANGED <<tasks, audioDir, llmConfig, ossFileConfig, ossEnv, ossDeleted, acquire,
                 extraction, audioData, ui>>

GenerateAudioSummaryCatch(r) ==
  /\ req[r].op = "generate-audio-summary" /\ req[r].pc = "catch"
  /\ IF TaskExists(req[r].id)
       THEN tasks' = saveTask(tasks, GenerateAudioSummaryFailed(tasks[req[r].id], req[r].err))
       ELSE UNCHANGED tasks
  /\ Respond(r, req[r], 500)
  /\ UNCHANGED <<audioDir, llmConfig, ossFileConfig, ossEnv, ossClientInstance,
                 ossClientInitialized, ossObjects, ossDeleted, others>>

\* ------------------------------------------- remote transcription job client
\* texts that the extraction of a SUCCEEDED job's result can return
Transcript == <<"transcript text">>
NoTextRecognized == <<"no text recognized">>
TranscriptFetchFailed == <<"fetch of the transcription result failed: ", NetError>>
ExtractedTexts == {Transcript, NoTextRecognized, TranscriptFetchFailed}

\* replies of the job service to one status query
PollReplies == {[status |-> "RUNNING", message |-> ""],
                [status |-> "PENDING", message |-> ""],
                [status |-> "SUCCEEDED", message |-> ""],
                [status |-> "THROWS", message |-> NetError]}
               \cup {[status |-> "FAILED", message |-> m] : m \in FailMessages}

\* audioToTextWithParaformer wraps every error it throws
AudioToTextError(e) == <<"audio to text failed: ">> \o e

\* the loop condition is off by one
PollAgain_OffByOne(attempts) == attempts <= maxAttempts

\* while (attempts < maxAttempts)
PollAgain(attempts) == attempts < maxAttempts

\* the service message is left out of the error
TranscriptionFailed_NoMessage(message) == <<"transcription job failed">>

\* throw new Error(`转写任务失败: ${queryResponse.data.output.message}`)
TranscriptionFailed(message) == <<"transcription job failed: ", message>>

\* audioToTextWithParaformer up to the submission of the job
\* reply: "ok" | "noresponse" | "notaskid"
SubmitTranscription(cfg, reply) ==
  IF cfg = "null"
    THEN [ok |-> FALSE, text |-> AudioToTextError(<<"configure the LLM parameters first, API key needed">>)]
  ELSE IF cfg = "nokey"
    THEN [ok |-> FALSE, text |-> AudioToTextError(<<"set the API key in the LLM configuration">>)]
  ELSE IF reply = "noresponse"
    THEN [ok |-> FALSE, text |-> AudioToTextError(<<NetError>>)]
  ELSE IF reply = "notaskid"
    THEN [ok |-> FALSE, text |-> AudioToTextError(<<"submitting the transcription job failed">>)]
  ELSE [ok |-> TRUE, text |-> <<"job id">>]

\* ------------------------------- audioToTextWithParaformer: text extraction
\* A text is a sequence of characters; "" of the code is <<>>.  A field that
\* is missing, null or "" is <<>>: the code tests fields by truthiness.
WhiteSpace == {" ", "\n"}

RECURSIVE TrimStart(_)
TrimStart(s) ==
  IF s # <<>> /\ Head(s) \in WhiteSpace THEN TrimStart(Tail(s)) ELSE s

RECURSIVE TrimEnd(_)
TrimEnd(s) ==
  IF s # <<>> /\ s[Len(s)] \in WhiteSpace THEN TrimEnd(SubSeq(s, 1, Len(s) - 1)) ELSE s

\* String.prototype.trim
Trim(s) == TrimEnd(TrimStart(s))

\* texts.join(sep)
RECURSIVE Join(_, _)
Join(texts, sep) ==
  IF texts = <<>> THEN <<>>
  ELSE IF Len(texts) = 1 THEN texts[1]
  ELSE texts[1] \o sep \o Join(Tail(texts), sep)

\* texts of the secondary result and of the direct fields
U == <<"u">>
V == <<"v">>
Blank == <<" ">>
DirectTexts == {<<"d">>, <<" ", "d", " ">>, Blank}
DirectSentences == {<<"s">>}
\* direct fields of an entry that also carries a transcription_url
ShadowedText == <<"x">>
ShadowedSentence == <<"y">>

\* the text fields of the elements of a collection
ItemLists == {<<>>, <<U>>, <<U, V>>, << <<>>, Blank >>}

\* the body fetched from transcription_url.  kind:
\*   "throws"       axios.get rejects
\*   "transcripts"  data.transcripts is an array, items its elements' text
\*   "notArray"     data.transcripts is set but is not an array
\*   "resultArray"  data.payload.result is an array, items its elements' text
\*   "resultObject" data.payload.result is an object with text and with
\*                  sentences, items the sentences' text
\*   "resultString" data.payload.result is the string text
\*   "other"        none of these fields
\* sentence holds the sentence field of the elements whose text is in items
Body(kind, items, text) ==
  [kind |-> kind, items |-> items, text |-> text,
   sentence |-> [k \in 1..Len(items) |-> <<>>]]

\* data.payload.result is an object without text whose sentences carry
\* their words in the field sentence, not in text
SentenceBody ==
  [kind |-> "resultObject", items |-> << <<>> >>, text |-> <<>>, sentence |-> <<V>>]

Bodies ==
  {Body("throws", <<>>, <<>>), Body("notArray", <<>>, <<>>), Body("other", <<>>, <<>>)}
  \cup {Body("transcripts", l, <<>>) : l \in ItemLists}
  \cup {Body("resultArray", l, <<>>) : l \in ItemLists}
  \cup {Body("resultObject", l, t) : l \in {<<>>, <<U, V>>}, t \in {<<>>, U}}
  \cup {Body("resultString", <<>>, t) : t \in {U, Blank}}
  \cup {SentenceBody}

\* firstResult.sentences: kind "none", "array" (items are the elements'
\* <<text, sentence>>) or "string"
NoSentences == [kind |-> "none", items |-> <<>>, text |-> <<>>]
SentencesValues ==
  {NoSentences,
   [kind |-> "array", items |-> <<>>, text |-> <<>>],
   [kind |-> "array", items |-> << <<U, <<>> >>, << <<>>, V >> >>, text |-> <<>>],
   [kind |-> "string", items |-> <<>>, text |-> <<"q">>]}

\* the entries of result.output.results
Entries ==
  {[transcription_url |-> TRUE, body |-> b, text |-> d[1], sentence |-> d[2],
    sentences |-> NoSentences] :
      b \in Bodies,
      d \in {<< <<>>, <<>> >>, <<ShadowedText, <<>> >>, <<ShadowedText, ShadowedSentence>>}}
  \cup
  {[transcription_url |-> FALSE, body |-> Body("other", <<>>, <<>>), text |-> t,
    sentence |-> st, sentences |-> ss] :
      t \in DirectTexts \cup {<<>>}, st \in DirectSentences \cup {<<>>},
      ss \in SentencesValues}

RECURSIVE SeqsUpTo(_, _)
SeqsUpTo(S, n) ==
  IF n = 0 THEN {<<>>}
  ELSE {<<>>} \cup {<<e>> \o q : e \in S, q \in SeqsUpTo(S, n - 1)}

\* what the body fetched from transcription_url adds to transcriptionText
ExtractBody(body) ==
  IF body.kind = "throws" THEN TranscriptFetchFailed
  ELSE IF body.kind = "transcripts" THEN Join(body.items, <<"\n">>)
  ELSE IF body.kind = "resultArray" THEN Join(body.items, <<"\n">>)
  ELSE IF body.kind = "resultObject"
    THEN IF body.text # <<>> THEN body.text ELSE Join(body.items, <<"\n">>)
  ELSE IF body.kind = "resultString" THEN body.text
  ELSE <<>>

\* the direct text is taken before the secondary result
ExtractEntry_DirectFirst(item) ==
  IF item.text # <<>> THEN item.text \o <<"\n">>
  ELSE IF item.transcription_url THEN ExtractBody(item.body)
  ELSE IF item.sentence # <<>> THEN item.sentence \o <<"\n">>
  ELSE <<>>

\* what one entry adds to transcriptionText in the loop over the results
ExtractEntry(item) ==
  IF item.transcription_url THEN ExtractBody(item.body)
  ELSE IF item.text # <<>> THEN item.text \o <<"\n">>
  ELSE IF item.sentence # <<>> THEN item.sentence \o <<"\n">>
  ELSE <<>>

\* s.text || s.sentence || '' of the elements of firstResult.sentences
SentenceTexts(items) ==
  [k \in 1..Len(items) |-> IF items[k][1] # <<>> THEN items[k][1] ELSE items[k][2]]

\* transcriptionText after the inspection of the first entry, which runs
\* when the loop left transcriptionText empty
FirstEntryFallback(firstResult) ==
  IF firstResult.sentence # <<>> THEN firstResult.sentence
  ELSE IF firstResult.sentences.kind = "array"
    THEN Join(SentenceTexts(firstResult.sentences.items), <<" ">>)
  ELSE IF firstResult.sentences.kind = "string" THEN firstResult.sentences.text
  ELSE IF firstResult.text # <<>> THEN firstResult.text
  ELSE <<>>

\* the empty text is returned as it is
ExtractionResult_NoFallback(transcriptionText) == Trim(transcriptionText)

\* return transcriptionText.trim() || '未识别到文本内容'
ExtractionResult(transcriptionText) ==
  IF Trim(transcriptionText) # <<>> THEN Trim(transcriptionText) ELSE NoTextRecognized

\* ---------------- the extraction of the two transcription routes
\* the texts of a list, one after the other
RECURSIVE Concat(_)
Concat(texts) == IF texts = <<>> THEN <<>> ELSE Head(texts) \o Concat(Tail(texts))

\* POST /api/transcribe-audio-oss: what the body fetched from
\* transcription_url adds; the sentences of payload.result give
\* s.text || s.sentence || ''
ExtractBodyOss(body) ==
  IF body.kind = "resultObject" /\ body.text = <<>>
    THEN Join([k \in 1..Len(body.items) |->
                 IF body.items[k] # <<>> THEN body.items[k] ELSE body.sentence[k]],
              <<"\n">>)
    ELSE ExtractBody(body)

\* POST /api/transcribe-audio-oss: one entry in the loop
ExtractEntryOss(item) ==
  IF item.transcription_url THEN ExtractBodyOss(item.body)
  ELSE IF item.text # <<>> THEN item.text \o <<"\n">>
  ELSE IF item.sentence # <<>> THEN item.sentence \o <<"\n">>
  ELSE <<>>

\* POST /api/transcribe-audio: one entry in the loop, if (item.text) only
ExtractEntryDirect(item) ==
  IF item.text # <<>> THEN item.text \o <<"\n">> ELSE <<>>

\* POST /api/transcribe-audio: the inspection of the first entry, which has
\* no branch for firstResult.text
FirstEntryFallbackDirect(firstResult) ==
  IF firstResult.sentence # <<>> THEN firstResult.sentence
  ELSE IF firstResult.sentences.kind = "array"
    THEN Join(SentenceTexts(firstResult.sentences.items), <<" ">>)
  ELSE IF firstResult.sentences.kind = "string" THEN firstResult.sentences.text
  ELSE <<>>

\* the text POST /api/transcribe-audio answers for result.output.results
TranscribeAudio(results) ==
  LET loop == Concat([k \in 1..Len(results) |-> ExtractEntryDirect(results[k])])
  IN  ExtractionResult(IF loop = <<>> /\ Len(results) > 0
                         THEN FirstEntryFallbackDirect(results[1]) ELSE loop)

\* the text POST /api/transcribe-audio-oss answers for result.output.results
TranscribeAudioOss(results) ==
  LET loop == Concat([k \in 1..Len(results) |-> ExtractEntryOss(results[k])])
  IN  ExtractionResult(IF loop = <<>> /\ Len(results) > 0
                         THEN FirstEntryFallback(results[1]) ELSE loop)

\* one iteration of the loop over result.output.results
ExtractLoop ==
  /\ extraction.pc = "loop"
  /\ extraction.i <= Len(extraction.results)
  /\ extraction' =
       [extraction EXCEPT !.i = @ + 1,
          !.transcriptionText = @ \o ExtractEntry(extraction.results[extraction.i])]
  /\ UNCHANGED <<tasks, audioDir, llmConfig, ossFileConfig, ossEnv, ossClientInstance,
                 ossClientInitialized, ossObjects, ossDeleted, req, ossConstructed,
                 acquire, afterReset, audioData, ui>>

\* after the loop: the inspection of the first entry
ExtractFirstEntry ==
  /\ extraction.pc = "loop"
  /\ extraction.i > Len(extraction.results)
  /\ extraction' =
       [extraction EXCEPT !.pc = "return",
          !.accumulated = extraction.transcriptionText,
          !.transcriptionText =
             IF extraction.transcriptionText = <<>> /\ Len(extraction.results) > 0
               THEN FirstEntryFallback(extraction.results[1])
               ELSE @]
  /\ UNCHANGED <<tasks, audioDir, llmConfig, ossFileConfig, ossEnv, ossClientInstance,
                 ossClientInitialized, ossObjects, ossDeleted, req, ossConstructed,
                 acquire, afterReset, audioData, ui>>

\* the return statement
ExtractReturn ==
  /\ extraction.pc = "return"
  /\ extraction' = [extraction EXCEPT !.pc = "done",
                                      !.out = ExtractionResult(extraction.transcriptionText)]
  /\ UNCHANGED <<tasks, audioDir, llmConfig, ossFileConfig, ossEnv, ossClientInstance,
                 ossClientInitialized, ossObjects, ossDeleted, req, ossConstructed,
                 acquire, afterReset, audioData, ui>>

\* ----------------------------------------- POST /api/process-audio-summary
ProcessAudioSummaryDone(task, summary) ==
  [task EXCEPT !.summary = summary, !.status = "completed"]

ProcessAudioSummaryFailed(task, err) ==
  [task EXCEPT !.status = "failed", !.summary = <<"summary generation failed: ">> \o err]

\* hasParams: the body carries both taskId and fileUrl
ProcessAudioSummary(r, id, hasParams) ==
  /\ req[r].pc = "idle"
  /\ LET q == Arrive("process-audio-summary", id) IN
     IF ~hasParams
       THEN Respond(r, q, 400) /\ UNCHANGED tasks
     ELSE IF ~TaskExists(id)
       THEN Throw(r, q, ReadTaskError) /\ UNCHANGED tasks
     ELSE IF tasks[id].type # "live"
       THEN Respond(r, q, 400) /\ UNCHANGED tasks
     ELSE LET task == [tasks[id] EXCEPT !.status = "processing"] IN
          /\ tasks' = saveTask(tasks, task)
          /\ req' = [req EXCEPT ![r] = [q EXCEPT !.pc = "submit", !.task = task]]
  /\ UNCHANGED <<audioDir, llmConfig, ossFileConfig, ossEnv, ossClientInstance,
                 ossClientInitialized, ossObjects, ossDeleted, others>>

ProcessAudioSummarySubmit(r) ==
  /\ req[r].op = "process-audio-summary" /\ req[r].pc = "submit"
  /\ \E reply \in {"ok", "noresponse", "notaskid"} :
       LET job == SubmitTranscription(llmConfig, reply) IN
       IF job.ok
         THEN req' = [req EXCEPT ![r] = [req[r] EXCEPT !.pc = "poll", !.attempts = 0]]
         ELSE Throw(r, req[r], job.text)
  /\ UNCHANGED <<tasks, audioDir, llmConfig, ossFileConfig, ossEnv, ossClientInstance,
                 ossClientInitialized, ossObjects, ossDeleted, others>>

\* one iteration of the poll loop: attempts++, one status query
ProcessAudioSummaryPoll(r) ==
  /\ req[r].op = "process-audio-summary" /\ req[r].pc = "poll"
  /\ PollAgain(req[r].attempts)
  /\ \E reply \in PollReplies :
       LET q == [req[r] EXCEPT !.attempts = @ + 1] IN
       IF reply.status = "THROWS"
         THEN Throw(r, q, AudioToTextError(<<reply.message>>))
       ELSE IF reply.status = "SUCCEEDED"
         THEN req' = [req EXCEPT ![r] = [q EXCEPT !.pc = "extract", !.reply = reply]]
       ELSE IF reply.status = "FAILED"
         THEN Throw(r, [q EXCEPT !.reply = reply],
                    AudioToTextError(TranscriptionFailed(reply.message)))
       ELSE req' = [req EXCEPT ![r] = q]
  /\ UNCHANGED <<tasks, audioDir, llmConfig, ossFileConfig, ossEnv, ossClientInstance,
                 ossClientInitialized, ossObjects, ossDeleted, others>>

\* the loop ended without a result: if (!result) throw 转写任务超时
ProcessAudioSummaryTimeout(r) ==
  /\ req[r].op = "process-audio-summary" /\ req[r].pc = "poll"
  /\ ~PollAgain(req[r].attempts)
  /\ Throw(r, req[r], AudioToTextError(<<"transcription job timed out">>))
  /\ UNCHANGED <<tasks, audioDir, llmConfig, ossFileConfig, ossEnv, ossClientInstance,
                 ossClientInitialized, ossObjects, ossDeleted, others>>

\* extraction of the text, task.content = textContent, saveTask
ProcessAudioSummaryExtract(r) ==
  /\ req[r].op = "process-audio-summary" /\ req[r].pc = "extract"
  /\ \E textContent \in ExtractedTexts :
       LET task == [req[r].task EXCEPT !.content = textContent] IN
       /\ tasks' = saveTask(tasks, task)
       /\ req' = [req EXCEPT ![r] = [req[r] EXCEPT !.pc = "summarize", !.task = task]]
  /\ UNCHANGED <<audioDir, llmConfig, ossFileConfig, ossEnv, ossClientInstance,
                 ossClientInitialized, ossObjects, ossDeleted, others>>

ProcessAudioSummarySummarize(r) ==
  /\ req[r].op = "process-audio-summary" /\ req[r].pc = "summarize"
  /\ LET q == req[r] IN
     IF llmConfig = "null"
       THEN Throw(r, q, <<"configure the LLM parameters first">>) /\ UNCHANGED tasks
       ELSE \E reply \in LLMReplies :
              LET summary == generateSummaryWithLLM(LLMDocument(llmConfig), LLMAnswer(reply)) IN
              IF summary.ok
                THEN /\ tasks' = saveTask(tasks, ProcessAudioSummaryDone(q.task, summary.text))
                     /\ Respond(r, q, 200)
                ELSE Throw(r, q, summary.text) /\ UNCHANGED tasks
  /\ UNCHANGED <<audioDir, llmConfig, ossFileConfig, ossEnv, ossClientInstance,
                 ossClientInitialized, ossObjects, ossDeleted, others>>

ProcessAudioSummaryCatch(r) ==
  /\ req[r].op = "process-audio-summary" /\ req[r].pc = "catch"
  /\ IF TaskExists(req[r].id)
       THEN tasks' = saveTask(tasks, ProcessAudioSummaryFailed(tasks[req[r].id], req[r].err))
       ELSE UNCHANGED tasks
  /\ Respond(r, req[r], 500)
  /\ UNCHANGED <<audioDir, llmConfig, ossFileConfig, ossEnv, ossClientInstance,
                 ossClientInitialized, ossObjects, ossDeleted, others>>

\* --------------------------------------------------- task CRUD and config
\* PUT /api/tasks/:id as the UI issues it for a new task
CreateTask(id, type) ==
  /\ ~TaskExists(id)
  /\ tasks' = saveTask(tasks, NewTask(id, type))
  /\ UNCHANGED <<audioDir, llmConfig, ossFileConfig, ossEnv, ossClientInstance,
                 ossClientInitialized, ossObjects, ossDeleted, req, others>>

\* DELETE /api/tasks/:id
\* deleting the task aborts the handlers that poll for it
DeleteTask_Cancels(id) ==
  /\ TaskExists(id)
  /\ tasks' = deleteTask(tasks, id)
  /\ req' = [r \in Reqs |->
              IF req[r].pc = "poll" /\ req[r].id = id
                THEN [req[r] EXCEPT !.pc = "catch", !.err = <<"cancelled">>]
                ELSE req[r]]
  /\ UNCHANGED <<audioDir, llmConfig, ossFileConfig, ossEnv, ossClientInstance,
                 ossClientInitialized, ossObjects, ossDeleted, others>>

DeleteTask(id) ==
  /\ TaskExists(id)
  /\ tasks' = deleteTask(tasks, id)
  /\ UNCHANGED <<audioDir, llmConfig, ossFileConfig, ossEnv, ossClientInstance,
                 ossClientInitialized, ossObjects, ossDeleted, req, others>>

\* the route removes the audio of the task together with its document
DeleteTaskRequest_Cleanup(r, id) ==
  /\ req[r].pc = "idle"
  /\ tasks' = deleteTask(tasks, id)
  /\ audioData' = Unlink(audioData, CanonicalFile(id))
  /\ audioDir' = audioDir \ {CanonicalFile(id)}
  /\ Respond(r, Arrive("delete-task", id), 204)
  /\ UNCHANGED <<llmConfig, ossFileConfig, ossEnv, ossClientInstance,
                 ossClientInitialized, ossObjects, ossDeleted, ossConstructed,
                 acquire, afterReset, extraction, ui>>

\* DELETE /api/tasks/:id as a request in slot r: deleteTask, then 204
DeleteTaskRequest(r, id) ==
  /\ req[r].pc = "idle"
  /\ tasks' = deleteTask(tasks, id)
  /\ Respond(r, Arrive("delete-task", id), 204)
  /\ UNCHANGED <<audioDir, llmConfig, ossFileConfig, ossEnv, ossClientInstance,
                 ossClientInitialized, ossObjects, ossDeleted, others>>

\* PUT /api/tasks/:id: the body replaces the document when its id is the
\* id of the path
EditedText == <<"edited by the user">>

\* bodies a client sends: an edited document that is no webpage task any more
PutBodies == {[NewTask(id, "video") EXCEPT !.summary = EditedText] : id \in {"t1", "t2"}}

\* the body is saved before its id is compared with the id of the path
UpdateTask_SaveFirst(r, id, taskData) ==
  /\ req[r].pc = "idle"
  /\ LET q == [Arrive("update-task", id) EXCEPT !.key = taskData.id] IN
     /\ tasks' = saveTask(tasks, taskData)
     /\ Respond(r, q, IF taskData.id # id THEN 400 ELSE 200)
  /\ UNCHANGED <<audioDir, llmConfig, ossFileConfig, ossEnv, ossClientInstance,
                 ossClientInitialized, ossObjects, ossDeleted, others>>

UpdateTask(r, id, taskData) ==
  /\ req[r].pc = "idle"
  /\ LET q == [Arrive("update-task", id) EXCEPT !.key = taskData.id] IN
     IF taskData.id # id
       THEN Respond(r, q, 400) /\ UNCHANGED tasks
       ELSE /\ tasks' = saveTask(tasks, taskData)
            /\ Respond(r, q, 200)
  /\ UNCHANGED <<audioDir, llmConfig, ossFileConfig, ossEnv, ossClientInstance,
                 ossClientInitialized, ossObjects, ossDeleted, others>>

\* GET /api/tasks/:id: the document, or 404 with readTask's error
GetTask(r, id) ==
  /\ req[r].pc = "idle"
  /\ LET q == Arrive("get-task", id) IN
     IF TaskExists(id)
       THEN Respond(r, [q EXCEPT !.before = <<tasks[id]>>], 200)
       ELSE Respond(r, [q EXCEPT !.err = ReadTaskError], 404)
  /\ UNCHANGED <<tasks, audioDir, llmConfig, ossFileConfig, ossEnv, ossClientInstance,
                 ossClientInitialized, ossObjects, ossDeleted, others>>

\* POST /api/llm-config
SaveLLMConfig(cfg) ==
  /\ llmConfig # cfg
  /\ llmConfig' = cfg
  /\ UNCHANGED <<tasks, audioDir, ossFileConfig, ossEnv, ossClientInstance,
                 ossClientInitialized, ossObjects, ossDeleted, req, others>>

\* POST /api/oss-config: only a complete document is accepted; the route
\* does not reset the client
SaveOSSConfig(v) ==
  /\ ossFileConfig # ConfigFile(v)
  /\ ossFileConfig' = ConfigFile(v)
  /\ UNCHANGED <<tasks, audioDir, llmConfig, ossEnv, ossClientInstance,
                 ossClientInitialized, ossObjects, ossDeleted, req, others>>

\* POST /api/reset-oss-client
resetOSSClient ==
  /\ ossClientInitialized
  /\ ossClientInstance' = NoClient
  /\ ossClientInitialized' = FALSE
  /\ afterReset' = TRUE
  /\ UNCHANGED <<tasks, audioDir, llmConfig, ossFileConfig, ossEnv, ossObjects,
                 ossDeleted, req, ossConstructed, acquire, extraction, audioData, ui>>

\* ------------------------------------- createOSSClient() as concurrent calls
\* The function is async: it runs without interruption up to its only await
\* (fs.readFile of the stored document, reached when the environment is
\* incomplete) and again from the continuation of that await to its return.

\* from the completeness check to the return
CreateOSSClientFinish(c, call, ossConfig) ==
  \E ctorOk \in BOOLEAN :
    LET client == constructOSSClient(ossConfig, ossConstructed, ctorOk) IN
    /\ client.serial <= MaxClients
    /\ ossClientInstance' = client
    /\ ossClientInitialized' = TRUE
    /\ ossConstructed' = IF client # NoClient THEN client.serial ELSE ossConstructed
    /\ acquire' = [acquire EXCEPT ![c] =
                     [call EXCEPT !.pc = "returned", !.ossConfig = ossConfig,
                                  !.result = client, !.resolved = TRUE]]

\* the call and its synchronous part
BeginCreateOSSClient(c) ==
  /\ acquire[c].pc = "idle"
  /\ afterReset' = FALSE
  /\ IF CacheHit(ossClientInstance, ossClientInitialized)
       THEN /\ acquire' = [acquire EXCEPT ![c] =
                             [NotCalled EXCEPT !.pc = "returned",
                                               !.result = ossClientInstance]]
            /\ UNCHANGED <<ossClientInstance, ossClientInitialized, ossConstructed>>
     ELSE IF Complete(ossEnv)
       THEN CreateOSSClientFinish(c, NotCalled, ossEnv)
     ELSE /\ acquire' = [acquire EXCEPT ![c] =
                           [NotCalled EXCEPT !.pc = "readFile", !.ossConfig = ossEnv,
                                             !.resolved = TRUE]]
          /\ UNCHANGED <<ossClientInstance, ossClientInitialized, ossConstructed>>

\* a caller that awaits the call
CreateOSSClientCall(c) ==
  /\ BeginCreateOSSClient(c)
  /\ UNCHANGED <<tasks, audioDir, llmConfig, ossFileConfig, ossEnv, ossObjects,
                 ossDeleted, req, extraction, audioData, ui>>

\* fs.readFile settles with the document as it is now
CreateOSSClientReadFile(c) ==
  /\ acquire[c].pc = "readFile"
  /\ acquire' = [acquire EXCEPT ![c].pc = "resume", ![c].fileConfig = ossFileConfig]
  /\ UNCHANGED <<tasks, audioDir, llmConfig, ossFileConfig, ossEnv, ossClientInstance,
                 ossClientInitialized, ossObjects, ossDeleted, req, ossConstructed,
                 afterReset, extraction, audioData, ui>>

\* the continuation of the await
CreateOSSClientResume(c) ==
  /\ acquire[c].pc = "resume"
  /\ CreateOSSClientFinish(c, acquire[c],
                           mergeFileConfig(acquire[c].ossConfig, acquire[c].fileConfig))
  /\ UNCHANGED <<tasks, audioDir, llmConfig, ossFileConfig, ossEnv, ossObjects,
                 ossDeleted, req, afterReset, extraction, audioData, ui>>

\* the caller has taken the value
CreateOSSClientReturn(c) ==
  /\ acquire[c].pc = "returned"
  /\ \A r \in Reqs : req[r].caller # c
  /\ acquire' = [acquire EXCEPT ![c] = NotCalled]
  /\ UNCHANGED <<tasks, audioDir, llmConfig, ossFileConfig, ossEnv, ossClientInstance,
                 ossClientInitialized, ossObjects, ossDeleted, req, ossConstructed,
                 afterReset, extraction, audioData, ui>>

\* ----------------------------------------------- POST /api/upload-audio-file
\* the file multer stores for the request (transcription_test_<suffix>)
TestFile == <<"transcription_test", "webm">>

\* hasFile: the multipart body carries the audio field; multer has then
\* already written the file into the audio directory
UploadAudioFile(r, hasFile) ==
  /\ req[r].pc = "idle"
  /\ LET q == [Arrive("upload-audio-file", "-") EXCEPT !.file = TestFile] IN
     IF ~hasFile
       THEN Respond(r, [q EXCEPT !.err = <<"audio file not found">>], 400)
            /\ UNCHANGED <<audioDir, audioData>>
       ELSE /\ \E bytes \in UploadBodies :
                 audioData' = WriteFile(audioData, TestFile, bytes)
            /\ audioDir' = audioDir \cup {TestFile}
            /\ req' = [req EXCEPT ![r] = [q EXCEPT !.pc = "access"]]
  /\ UNCHANGED <<tasks, llmConfig, ossFileConfig, ossEnv, ossClientInstance,
                 ossClientInitialized, ossObjects, ossDeleted, ossConstructed, acquire, afterReset, extraction, ui>>

\* fs.access has settled; const client = createOSSClient() starts call c and
\* yields its Promise, which passes if (!client); client.put is undefined on
\* a Promise, so calling it throws a TypeError into the inner catch
UploadAudioFileStore(r) ==
  /\ req[r].op = "upload-audio-file" /\ req[r].pc = "access"
  /\ LET q == req[r] IN
     IF q.file \notin audioDir
       THEN /\ Respond(r, [q EXCEPT !.err = <<"file save failed">>], 500)
            /\ UNCHANGED <<ossClientInstance, ossClientInitialized, others>>
       ELSE \E c \in Callers :
              /\ BeginCreateOSSClient(c)
              /\ LET client == PendingPromise IN
                 IF client = NoClient
                   THEN Respond(r, [q EXCEPT !.caller = c, !.client = client,
                                             !.err = <<"OSS configuration incomplete">>], 500)
                   ELSE req' = [req EXCEPT ![r] =
                                  [q EXCEPT !.caller = c, !.client = client,
                                            !.invoked = "put", !.pc = "ossError",
                                            !.err = <<"client.put is not a function">>]]
              /\ UNCHANGED <<extraction, audioData>>
  /\ UNCHANGED <<tasks, audioDir, llmConfig, ossFileConfig, ossEnv, ossObjects, ossDeleted, ui>>

\* catch (ossError): the local file is removed and the error is answered
UploadAudioFileOssError(r) ==
  /\ req[r].op = "upload-audio-file" /\ req[r].pc = "ossError"
  /\ audioDir' = audioDir \ {req[r].file}
  /\ audioData' = Unlink(audioData, req[r].file)
  /\ Respond(r, [req[r] EXCEPT !.err = <<"OSS upload failed: ">> \o req[r].err], 500)
  /\ UNCHANGED <<tasks, llmConfig, ossFileConfig, ossEnv, ossClientInstance,
                 ossClientInitialized, ossObjects, ossDeleted, ossConstructed, acquire, afterReset, extraction, ui>>

\* ------------------------------------------------- a call of uploadFileToOSS
\* uploadFileToOSS(localFilePath, key) called in slot r: the call returns the
\* URL (code 200) or throws (code 500)
UploadFileToOSSCall(r, localFilePath, key) ==
  /\ req[r].pc = "idle"
  /\ \E ctorOk \in BOOLEAN, putOk \in BOOLEAN :
       LET q == [Arrive("uploadFileToOSS", "-") EXCEPT !.file = localFilePath, !.key = key]
           client == createOSSClient(ossClientInstance, ossClientInitialized,
                                     ossEnv, ossFileConfig, ossConstructed, ctorOk)
           result == uploadFileToOSS(client.inst, audioDir, localFilePath, key, putOk)
           done == [q EXCEPT !.client = client.inst,
                             !.invoked = IF result.put THEN "put" ELSE "none"] IN
       /\ client.inst.serial <= MaxClients
       /\ ossClientInstance' = client.inst
       /\ ossClientInitialized' = client.init
       /\ ossConstructed' = IF client.inst.serial > ossConstructed
                              THEN client.inst.serial ELSE ossConstructed
       /\ IF result.ok
            THEN /\ ossObjects' = OssPut(ossObjects, key, localFilePath)
                 /\ Respond(r, [done EXCEPT !.url = result.text], 200)
            ELSE /\ UNCHANGED ossObjects
                 /\ Respond(r, [done EXCEPT !.err = result.text], 500)
  /\ afterReset' = FALSE
  /\ UNCHANGED <<tasks, audioDir, llmConfig, ossFileConfig, ossEnv, ossDeleted, acquire,
                 extraction, audioData, ui>>

\* ------------------------------------------------------------ mergeAudioFiles
\* join(AUDIO_DIR, `${taskId}_temp.webm`)
TempFile(id) == <<id, "_temp", "webm">>

\* the temp file stays after the append
mergeAudioFiles_KeepTemp(data, taskId) ==
  LET tempAudioPath == TempFile(taskId)
      finalAudioPath == CanonicalFile(taskId) IN
  IF tempAudioPath \notin DOMAIN data
    THEN [ok |-> FALSE, data |-> data,
          text |-> <<"merge audio files failed: ", "temp audio file does not exist">>]
  ELSE IF finalAudioPath \in DOMAIN data
    THEN LET mergedData == data[finalAudioPath] \o data[tempAudioPath] IN
         [ok |-> TRUE, text |-> finalAudioPath,
          data |-> WriteFile(data, finalAudioPath, mergedData)]
  ELSE [ok |-> TRUE, text |-> finalAudioPath,
        data |-> Rename(data, tempAudioPath, finalAudioPath)]

\* mergeAudioFiles(taskId) on the files data: the files after the call and
\* the file name returned (ok) or the message of the error thrown
mergeAudioFiles(data, taskId) ==
  LET tempAudioPath == TempFile(taskId)
      finalAudioPath == CanonicalFile(taskId) IN
  IF tempAudioPath \notin DOMAIN data
    THEN [ok |-> FALSE, data |-> data,
          text |-> <<"merge audio files failed: ", "temp audio file does not exist">>]
  ELSE IF finalAudioPath \in DOMAIN data
    THEN LET mergedData == data[finalAudioPath] \o data[tempAudioPath] IN
         [ok |-> TRUE, text |-> finalAudioPath,
          data |-> Unlink(WriteFile(data, finalAudioPath, mergedData), tempAudioPath)]
  ELSE [ok |-> TRUE, text |-> finalAudioPath,
        data |-> Rename(data, tempAudioPath, finalAudioPath)]

\* the file operation of a call that fails: none, fs.readFile of the temp
\* or of the canonical file, fs.writeFile before any byte is written or
\* after the file was truncated and partly written, fs.unlink of the temp file
MergeFaults == {"none", "readTemp", "readFinal", "writeFinal", "writePartial", "unlinkTemp"}

MergeFailed(e) == <<"merge audio files failed: ", e>>

\* mergeAudioFiles(taskId) when the file operation fault fails and the
\* fs.rename of the inner catch block succeeds or not (renameOk); partial
\* is what a failed fs.writeFile left of the canonical file
mergeAudioFilesFault(data, taskId, fault, renameOk, partial) ==
  LET tempAudioPath == TempFile(taskId)
      finalAudioPath == CanonicalFile(taskId)
      \* catch { await fs.rename(tempAudioPath, finalAudioPath) }
      fallback(d) ==
        IF renameOk
          THEN [ok |-> TRUE, text |-> finalAudioPath,
                data |-> Rename(d, tempAudioPath, finalAudioPath)]
          ELSE [ok |-> FALSE, text |-> MergeFailed("rename failed"), data |-> d] IN
  IF tempAudioPath \notin DOMAIN data
    THEN [ok |-> FALSE, data |-> data,
          text |-> MergeFailed("temp audio file does not exist")]
  ELSE IF finalAudioPath \in DOMAIN data
    THEN LET mergedData == data[finalAudioPath] \o data[tempAudioPath] IN
         IF fault \in {"readTemp", "readFinal", "writeFinal"}
           THEN fallback(data)
         ELSE IF fault = "writePartial"
           THEN fallback(WriteFile(data, finalAudioPath, partial))
         ELSE IF fault = "unlinkTemp"
           THEN fallback(WriteFile(data, finalAudioPath, mergedData))
         ELSE [ok |-> TRUE, text |-> finalAudioPath,
               data |-> Unlink(WriteFile(data, finalAudioPath, mergedData), tempAudioPath)]
  ELSE fallback(data)

\* a call mergeAudioFiles(id) in slot r in which a file operation may fail
\* (files of more than 2 * MaxBytes bytes are not followed further)
MergeAudioFilesFaultCall(r, id, fault, renameOk) ==
  /\ req[r].pc = "idle"
  /\ \E partial \in {<<>>} \cup (IF /\ CanonicalFile(id) \in DOMAIN audioData
                                      /\ audioData[CanonicalFile(id)] # <<>>
                                   THEN {<<audioData[CanonicalFile(id)][1]>>}
                                   ELSE {}) :
       LET q == [Arrive("mergeAudioFiles", id) EXCEPT !.before = audioData, !.key = fault]
           result == mergeAudioFilesFault(audioData, id, fault, renameOk, partial) IN
       /\ \A f \in DOMAIN result.data : Len(result.data[f]) <= 2 * MaxBytes
       /\ audioData' = result.data
       /\ audioDir' = DOMAIN result.data
       /\ IF result.ok
            THEN Respond(r, [q EXCEPT !.url = result.text], 200)
            ELSE Respond(r, [q EXCEPT !.err = result.text], 500)
  /\ UNCHANGED <<tasks, llmConfig, ossFileConfig, ossEnv, ossClientInstance,
                 ossClientInitialized, ossObjects, ossDeleted, ossConstructed,
                 acquire, afterReset, extraction, ui>>

\* a call mergeAudioFiles(id) in slot r: it returns (code 200) or throws
\* (code 500)
MergeAudioFilesCall(r, id) ==
  /\ req[r].pc = "idle"
  /\ LET q == [Arrive("mergeAudioFiles", id) EXCEPT !.before = audioData]
         result == mergeAudioFiles(audioData, id) IN
     /\ audioData' = result.data
     /\ audioDir' = DOMAIN result.data
     /\ IF result.ok
          THEN Respond(r, [q EXCEPT !.url = result.text], 200)
          ELSE Respond(r, [q EXCEPT !.err = result.text], 500)
  /\ UNCHANGED <<tasks, llmConfig, ossFileConfig, ossEnv, ossClientInstance,
                 ossClientInitialized, ossObjects, ossDeleted, ossConstructed,
                 acquire, afterReset, extraction, ui>>

\* ------------------------------------------------------------ process crash
\* the process dies and is started again: the handlers in flight and the
\* module state are gone, the files and the bucket stay; nothing at start-up
\* looks at the task records
Crash ==
  /\ \E r \in Reqs : req[r].pc # "idle"
  /\ req' = [r \in Reqs |-> Idle]
  /\ acquire' = [c \in Callers |-> NotCalled]
  /\ ossClientInstance' = NoClient
  /\ ossClientInitialized' = FALSE
  /\ ossConstructed' = 0
  /\ afterReset' = FALSE
  /\ UNCHANGED <<tasks, audioDir, audioData, llmConfig, ossFileConfig, ossEnv,
                 ossObjects, ossDeleted, extraction, ui>>

\* the client has read the response
Reply(r) ==
  /\ req[r].pc = "done"
  /\ req' = [req EXCEPT ![r] = Idle]
  /\ UNCHANGED <<tasks, audioDir, llmConfig, ossFileConfig, ossEnv, ossClientInstance,
                 ossClientInitialized, ossObjects, ossDeleted, others>>

\* ---------------------------------------------------------- specifications
\* steps of the webpage pipeline
WebpageSteps(r) ==
  \/ \E id \in TaskIds : ProcessWebpage(r, id)
  \/ ProcessWebpageFetch(r)
  \/ ProcessWebpageSummarize(r)
  \/ ProcessWebpageCatch(r)

\* steps of the capture phase of a live task
CaptureSteps(r) ==
  \/ \E id \in TaskIds : StartRecording(r, id)
  \/ StartRecordingCatch(r)
  \/ \E id \in TaskIds : StopRecording(r, id)
  \/ StopRecordingFinalize(r)
  \/ StopRecordingCatch(r)
  \/ \E id \in TaskIds, hasFile \in BOOLEAN : UploadAudio(r, id, hasFile)
  \/ \E id \in TaskIds : RecordingFailed(r, id)

\* steps of the upload that opens the summarize phase of a live task
UploadSteps(r) ==
  \/ \E id \in TaskIds : GenerateAudioSummary(r, id)
  \/ GenerateAudioSummaryUpload(r)
  \/ GenerateAudioSummaryCatch(r)

\* steps of transcription and summarization of a live task
AudioSummarySteps(r) ==
  \/ \E id \in TaskIds, hasParams \in BOOLEAN : ProcessAudioSummary(r, id, hasParams)
  \/ ProcessAudioSummarySubmit(r)
  \/ ProcessAudioSummaryPoll(r)
  \/ ProcessAudioSummaryTimeout(r)
  \/ ProcessAudioSummaryExtract(r)
  \/ ProcessAudioSummarySummarize(r)
  \/ ProcessAudioSummaryCatch(r)

\* the whole server, requests served one after the other, tasks never
\* deleted, the client never reset
Next ==
  \/ \E r \in Serial : WebpageSteps(r)
  \/ \E r \in Serial : CaptureSteps(r)
  \/ \E r \in Serial : UploadSteps(r)
  \/ \E r \in Serial : AudioSummarySteps(r)
  \/ \E r \in Serial : Reply(r)
  \/ \E id \in TaskIds, type \in Types : CreateTask(id, type)
  \/ \E cfg \in LLMConfigs \ {"null"} : SaveLLMConfig(cfg)
  \/ SaveOSSConfig("file1")

Spec == Init /\ [][Next]_vars

\* the webpage pipeline: concurrent requests racing with creation and deletion
NextWeb ==
  \/ \E r \in Reqs : WebpageSteps(r)
  \/ \E r \in Reqs : Reply(r)
  \/ \E id \in TaskIds, type \in Types : CreateTask(id, type)
  \/ \E id \in TaskIds : DeleteTask(id)
  \/ \E cfg \in LLMConfigs \ {"null"} : SaveLLMConfig(cfg)

SpecWeb == Init /\ [][NextWeb]_vars

\* transcription and summarization of a live task racing with creation and
\* deletion
NextAudio ==
  \/ \E r \in Serial : AudioSummarySteps(r)
  \/ \E r \in Serial : Reply(r)
  \/ \E id \in TaskIds, type \in Types : CreateTask(id, type)
  \/ \E id \in TaskIds : DeleteTask(id)
  \/ \E cfg \in LLMConfigs \ {"null"} : SaveLLMConfig(cfg)

SpecAudio == Init /\ [][NextAudio]_vars

\* the event loop resumes a handler whenever the call it awaits has returned
SpecAudioFair == SpecAudio /\ \A r \in Serial : WF_vars(AudioSummarySteps(r))

\* values the user may enter in the stored document
ConfigVersions == {"file1", "file2"}

\* the process starts with any subset of the OSS_* variables set
InitOSS == \E set \in SUBSET OssFields : Start(EnvConfig(set), <<>>)

\* steps of one createOSSClient() call
AcquireSteps(c) ==
  \/ CreateOSSClientCall(c)
  \/ CreateOSSClientReadFile(c)
  \/ CreateOSSClientResume(c)
  \/ CreateOSSClientReturn(c)

\* the object store client: concurrent calls racing with edits of the stored
\* document and with resets
NextOSS ==
  \/ \E c \in Callers : AcquireSteps(c)
  \/ \E v \in ConfigVersions : SaveOSSConfig(v)
  \/ resetOSSClient

SpecOSS == InitOSS /\ [][NextOSS]_vars

\* the extraction applied to every result of up to MaxEntries entries
InitExtract == \E results \in SeqsUpTo(Entries, MaxEntries) : Start(NoOSSConfig, results)

NextExtract ==
  \/ ExtractLoop
  \/ ExtractFirstEntry
  \/ ExtractReturn

SpecExtract == InitExtract /\ [][NextExtract]_vars

\* steps of the upload-audio-file handler
UploadAudioFileSteps(r) ==
  \/ \E hasFile \in BOOLEAN : UploadAudioFile(r, hasFile)
  \/ UploadAudioFileStore(r)
  \/ UploadAudioFileOssError(r)

\* the handler that uses the client directly, with the calls it starts and
\* edits of the stored document
NextStoreUse ==
  \/ \E r \in Serial : UploadAudioFileSteps(r)
  \/ \E r \in Serial : Reply(r)
  \/ \E c \in Callers : AcquireSteps(c)
  \/ SaveOSSConfig("file1")

SpecStoreUse == InitOSS /\ [][NextStoreUse]_vars

\* local files and object keys a call of uploadFileToOSS is given
LocalFiles == {CanonicalFile("t1"), CanonicalFile("t2")}
ObjectKeys == {<<"temp_audio", "t1", "webm">>, <<"temp_audio", "t2", "webm">>}

\* every environment, with or without stored document, any of the files
InitUpload ==
  \E set \in SUBSET OssFields, file \in {NoConfigFile, ConfigFile("file1")},
     files \in SUBSET LocalFiles :
    StartWith(EnvConfig(set), file, [f \in files |-> <<1>>], <<>>)

NextUpload ==
  \/ \E r \in Reqs, localFilePath \in LocalFiles, key \in ObjectKeys :
       UploadFileToOSSCall(r, localFilePath, key)
  \/ \E r \in Reqs : Reply(r)

SpecUpload == InitUpload /\ [][NextUpload]_vars

\* the multi-stage pipelines, requests served one after the other, the
\* process crashing at any moment
NextCrash ==
  \/ \E r \in Serial : WebpageSteps(r)
  \/ \E r \in Serial, id \in TaskIds : UploadAudio(r, id, TRUE)
  \/ \E r \in Serial : UploadSteps(r)
  \/ \E r \in Serial : AudioSummarySteps(r)
  \/ \E r \in Serial : Reply(r)
  \/ \E id \in TaskIds, type \in Types : CreateTask(id, type)
  \/ \E cfg \in LLMConfigs \ {"null"} : SaveLLMConfig(cfg)
  \/ SaveOSSConfig("file1")
  \/ Crash

SpecCrash == Init /\ [][NextCrash]_vars

\* two tasks, to tell apart what an operation does to the task it is
\* addressed to and to the other
\* the summarization client called with every configuration and answer
NextLLM ==
  \/ \E config \in LLMDocuments, answer \in LLMAnswers :
       GenerateSummaryCall("r1", config, answer)
  \/ Reply("r1")

SpecLLM == Init /\ [][NextLLM]_vars

\* a live task that gets its audio file from upload-audio and its remote
\* object from summarize-live-audio, and DELETE requests for its id
NextDelete ==
  \/ UploadAudio("r1", "t1", TRUE)
  \/ UploadSteps("r1")
  \/ DeleteTaskRequest("r1", "t1")
  \/ Reply("r1")
  \/ CreateTask("t1", "live")
  \/ SaveOSSConfig("file1")

SpecDelete == Init /\ [][NextDelete]_vars

\* process-with-known-url from its arrival to the end of its poll loop
PollLoopSteps(r) ==
  \/ \E hasParams \in BOOLEAN : ProcessAudioSummary(r, "t1", hasParams)
  \/ ProcessAudioSummarySubmit(r)
  \/ ProcessAudioSummaryPoll(r)
  \/ ProcessAudioSummaryTimeout(r)
  \/ ProcessAudioSummaryCatch(r)

\* a second summarize request for the same task, up to the submission of
\* its own job
SecondRequestSteps(r) ==
  \/ \E hasParams \in BOOLEAN : ProcessAudioSummary(r, "t1", hasParams)
  \/ ProcessAudioSummarySubmit(r)
  \/ ProcessAudioSummaryCatch(r)

\* a summarize request with a known URL polling in slot r1 while capture-failed
\* and second summarize requests are served in slot r2 and the task is
\* deleted and created again
NextPoll ==
  \/ PollLoopSteps("r1")
  \/ SecondRequestSteps("r2")
  \/ RecordingFailed("r2", "t1")
  \/ \E r \in Reqs : Reply(r)
  \/ CreateTask("t1", "live")
  \/ DeleteTask("t1")
  \/ SaveLLMConfig("complete")

SpecPoll == Init /\ [][NextPoll]_vars

\* summarize-webpage requests of task t1 racing with PUT requests that
\* replace its document
NextLost ==
  \/ \E r \in Reqs : WebpageSteps(r)
  \/ \E r \in Reqs, taskData \in PutBodies : UpdateTask(r, "t1", taskData)
  \/ \E r \in Reqs : Reply(r)
  \/ CreateTask("t1", "webpage")
  \/ SaveLLMConfig("complete")

SpecLost == Init /\ [][NextLost]_vars


\* steps in slot r of the operations that a request starts for task id
StepsFor(r, id) ==
  \/ ProcessWebpage(r, id)
  \/ StartRecording(r, id)
  \/ StopRecording(r, id)
  \/ \E hasFile \in BOOLEAN : UploadAudio(r, id, hasFile)
  \/ RecordingFailed(r, id)
  \/ GenerateAudioSummary(r, id)

\* the later steps of those operations
LaterSteps(r) ==
  \/ ProcessWebpageFetch(r)
  \/ ProcessWebpageSummarize(r)
  \/ ProcessWebpageCatch(r)
  \/ StartRecordingCatch(r)
  \/ StopRecordingFinalize(r)
  \/ StopRecordingCatch(r)
  \/ GenerateAudioSummaryUpload(r)
  \/ GenerateAudioSummaryCatch(r)

\* pipeline operations on t1, one request after the other, and CRUD
\* operations on both tasks; t2 gets its record and its audio file from
\* create and upload-audio
NextIndep ==
  \/ StepsFor("r1", "t1")
  \/ UploadAudio("r1", "t2", TRUE)
  \/ LaterSteps("r1")
  \/ Reply("r1")
  \/ \E id \in TwoTasks, type \in {"webpage", "live"} : CreateTask(id, type)
  \/ \E id \in TwoTasks : DeleteTask(id)
  \/ SaveLLMConfig("complete")

SpecIndep == Init /\ [][NextIndep]_vars

\* ---------------------------------------------- fetchWebPageContent text
\* a page is a sequence of segments: a run of len non-blank characters
\* without markup ("text"), a run of len white-space characters ("space"),
\* one tag <...> ("tag"), or one script or style element with its body
\* ("script")
Segment(kind, len) == [kind |-> kind, len |-> len]
Segments ==
  {Segment("text", n) : n \in {1, maxContentLength - 1, maxContentLength}}
  \cup {Segment("space", n) : n \in {1, 2}}
  \cup {Segment("tag", 3), Segment("script", 20)}

\* text.replace(/<script...<\/script>/gi, '') and the same for style
RECURSIVE RemoveScripts(_)
RemoveScripts(text) ==
  IF text = <<>> THEN <<>>
  ELSE IF Head(text).kind = "script" THEN RemoveScripts(Tail(text))
  ELSE <<Head(text)>> \o RemoveScripts(Tail(text))

\* text.replace(/<[^>]+>/g, ' ')
TagsToSpaces(text) ==
  [i \in 1..Len(text) |-> IF text[i].kind = "tag" THEN Segment("space", 1) ELSE text[i]]

\* text.replace(/\s+/g, ' '): every run of white space becomes one space
\* (adjacent runs of the same kind are one run)
RECURSIVE CollapseRuns(_)
CollapseRuns(text) ==
  IF Len(text) <= 1
    THEN [i \in 1..Len(text) |->
            IF text[i].kind = "space" THEN Segment("space", 1) ELSE text[i]]
  ELSE LET a == text[1]
           b == text[2]
           rest == SubSeq(text, 3, Len(text)) IN
       IF a.kind = b.kind
         THEN CollapseRuns(<<Segment(a.kind, a.len + b.len)>> \o rest)
       ELSE IF a.kind = "space"
         THEN <<Segment("space", 1)>> \o CollapseRuns(Tail(text))
       ELSE <<a>> \o CollapseRuns(Tail(text))

\* .trim() of a text whose runs are collapsed
TrimRuns(text) ==
  LET from == IF text # <<>> /\ text[1].kind = "space" THEN 2 ELSE 1
      to == IF text # <<>> /\ text[Len(text)].kind = "space" THEN Len(text) - 1
            ELSE Len(text) IN
  SubSeq(text, from, to)

\* the number of characters of a text
RECURSIVE Chars(_)
Chars(text) == IF text = <<>> THEN 0 ELSE Head(text).len + Chars(Tail(text))

\* text.substring(0, n)
RECURSIVE Substring(_, _)
Substring(text, n) ==
  IF text = <<>> \/ n <= 0 THEN <<>>
  ELSE IF Head(text).len >= n THEN <<Segment(Head(text).kind, n)>>
  ELSE <<Head(text)>> \o Substring(Tail(text), n - Head(text).len)

\* the text fetchWebPageContent returns for the page html
WebPageText(html) ==
  Substring(TrimRuns(CollapseRuns(TagsToSpaces(RemoveScripts(html)))), maxContentLength)

\* one fetch in slot r: the slot keeps the page and the returned text
FetchWebPageCall(r, html) ==
  /\ req[r].pc = "idle"
  /\ req' = [req EXCEPT ![r] =
              [Arrive("fetchWebPageContent", "-") EXCEPT
                 !.pc = "done", !.file = html, !.before = WebPageText(html)]]
  /\ UNCHANGED <<tasks, audioDir, llmConfig, ossFileConfig, ossEnv, ossClientInstance,
                 ossClientInitialized, ossObjects, ossDeleted, others>>

\* the fetch stage called with every page
NextFetch ==
  \/ \E html \in SeqsUpTo(Segments, MaxSegments) : FetchWebPageCall("r1", html)
  \/ Reply("r1")

SpecFetch == Init /\ [][NextFetch]_vars

\* the CRUD routes on two task ids
NextCrud ==
  \/ \E id \in TwoTasks : GetTask("r1", id)
  \/ \E id \in TwoTasks, taskData \in PutBodies : UpdateTask("r1", id, taskData)
  \/ Reply("r1")
  \/ \E id \in TwoTasks, type \in Types : CreateTask(id, type)
  \/ \E id \in TwoTasks : DeleteTask(id)

SpecCrud == Init /\ [][NextCrud]_vars

\* files stop-recording may find: recordings of the task under two
\* extensions, its temp file, the recording of another task
FinalizeFiles == {CanonicalFile("t1"), <<"t1", "mp3">>, TempFile("t1"), CanonicalFile("t2")}

InitFinalize ==
  \E files \in SUBSET FinalizeFiles : \E data \in [files -> UploadBodies] :
    StartWith(NoOSSConfig, NoConfigFile, data, <<>>)

\* steps of the stop-recording handler
FinalizeSteps(r) ==
  \/ \E id \in TaskIds : StopRecording(r, id)
  \/ StopRecordingFinalize(r)
  \/ StopRecordingCatch(r)

NextFinalize ==
  \/ \E r \in Serial : FinalizeSteps(r)
  \/ \E r \in Serial : Reply(r)
  \/ \E id \in TaskIds, type \in Types : CreateTask(id, type)

SpecFinalize == InitFinalize /\ [][NextFinalize]_vars

\* contents of the audio files at the start: up to MaxBytes bytes each
Bytes == {1, 2}
Contents == SeqsUpTo(Bytes, MaxBytes)
MergeFiles == {TempFile(id) : id \in TaskIds} \cup {CanonicalFile(id) : id \in TaskIds}

\* any of the temp and canonical files, with any contents
InitMerge ==
  \E files \in SUBSET MergeFiles : \E data \in [files -> Contents] :
    StartWith(NoOSSConfig, NoConfigFile, data, <<>>)

NextMerge ==
  \/ \E r \in Reqs, id \in TaskIds : MergeAudioFilesCall(r, id)
  \/ \E r \in Reqs : Reply(r)

SpecMerge == InitMerge /\ [][NextMerge]_vars

\* calls of mergeAudioFiles in which one file operation may fail
NextMergeFault ==
  \/ \E r \in Reqs, id \in TaskIds, fault \in MergeFaults, renameOk \in BOOLEAN :
       MergeAudioFilesFaultCall(r, id, fault, renameOk)
  \/ \E r \in Reqs : Reply(r)

SpecMergeFault == InitMerge /\ [][NextMergeFault]_vars

\* ------------------------------------------------------------------ claims
\* the handler in slot r answers in this step
Answers(r, op) == req[r].pc # "done" /\ req'[r].pc = "done" /\ req'[r].op = op

\* C1: whenever summarize-webpage answers 200 (fetch, LLM-config lookup and
\* summarization succeeded) the stored record has status completed, the
\* fetched text as content and the returned summary as summary; whenever it
\* answers 500 (a stage failed) the stored record of the task has status
\* failed and a summary that contains the error text of the failing stage.
C1_WebpageOutcome ==
  [][\A r \in Reqs :
       Answers(r, "process-webpage") =>
         LET id == req'[r].id IN
         /\ req'[r].code = 200 =>
              /\ id \in DOMAIN tasks'
              /\ tasks'[id].status = "completed"
              /\ tasks'[id].content = PageText
              /\ tasks'[id].summary = LLMSummary
         /\ (req'[r].code = 500 /\ id \in DOMAIN tasks') =>
              /\ tasks'[id].status = "failed"
              /\ req'[r].err # Undefined
              /\ ContainsText(tasks'[id].summary, req'[r].err)]_vars

\* one request has answered 200 and a later one 500 with the fetch error
\* recorded in the task
C1_Witness ==
  /\ req["r1"].op = "process-webpage" /\ req["r1"].pc = "done" /\ req["r1"].code = 200
  /\ req["r2"].op = "process-webpage" /\ req["r2"].pc = "done" /\ req["r2"].code = 500
  /\ "t1" \in DOMAIN tasks
  /\ tasks["t1"].type = "webpage"
  /\ tasks["t1"].status = "failed"
  /\ tasks["t1"].content = PageText
  /\ ContainsText(tasks["t1"].summary, fetchWebPageContent(FALSE).text)

\* a handler takes a step
PipelineStep == \E r \in Reqs : req'[r] # req[r]

\* the status of the stored record of id changes from s to t in this step
StatusChange(id, s, t) ==
  /\ id \in DOMAIN tasks /\ id \in DOMAIN tasks'
  /\ tasks[id].status = s /\ tasks'[id].status = t
  /\ s # t

ListedTransitions ==
  {<<"pending", "processing">>, <<"processing", "completed">>,
   <<"processing", "failed">>, <<"failed", "processing">>,
   <<"completed", "processing">>}

C3_CompletedOnlyAfterSummarization ==
  \A id \in DOMAIN tasks :
    (tasks[id].type = "live" /\ tasks[id].status = "completed")
      => /\ tasks[id].summary = LLMSummary
         /\ tasks[id].content \in ExtractedTexts

\* C3 as amended: a live task is completed only when stop-capture has
\* finalized its canonical audio file (the record then carries the capture
\* marker as summary and names the file) or when transcription and
\* summarization have succeeded for it.
C3_CompletedAfterCaptureOrSummarization ==
  \A id \in DOMAIN tasks :
    (tasks[id].type = "live" /\ tasks[id].status = "completed")
      => \/ /\ tasks[id].summary = <<"audio recording finished">>
            /\ tasks[id].audioFile = CanonicalFile(id)
            /\ CanonicalFile(id) \in audioDir
         \/ /\ tasks[id].summary = LLMSummary
            /\ tasks[id].content \in ExtractedTexts

\* stop-capture has completed a live task that was never summarized
C3_Witness ==
  /\ req["r1"].op = "stop-recording" /\ req["r1"].pc = "done" /\ req["r1"].code = 200
  /\ "t1" \in DOMAIN tasks
  /\ tasks["t1"].type = "live"
  /\ tasks["t1"].status = "completed"
  /\ tasks["t1"].summary = <<"audio recording finished">>
  /\ tasks["t1"].content = Undefined

\* C4: a record with status failed never has isRecording = true.
C4_FailedNotRecording ==
  \A id \in DOMAIN tasks : tasks[id].status = "failed" => ~tasks[id].isRecording

\* C5: isRecording turns true only on a live task and only by start-capture.
C5_RecordingOnlyByStartCapture ==
  [][\A id \in TaskIds :
       (/\ id \in DOMAIN tasks'
        /\ tasks'[id].isRecording
        /\ ~(id \in DOMAIN tasks /\ tasks[id].isRecording))
       => /\ tasks'[id].type = "live"
          /\ \E r \in Reqs : Answers(r, "start-recording") /\ req'[r].id = id]_vars

\* C6: the summarize phase of a live task is in flight only while the
\* canonical audio file of the task exists.
C6_SummarizeNeedsCanonicalFile ==
  \A r \in Reqs :
    (\/ req[r].op = "generate-audio-summary" /\ req[r].pc = "upload"
     \/ req[r].op = "process-audio-summary"
          /\ req[r].pc \in {"submit", "poll", "extract", "summarize"})
    => CanonicalFile(req[r].id) \in audioDir

\* the remote objects uploaded from the canonical audio file of task id
ObjectsOf(id) == {o \in ossObjects : o.src = CanonicalFile(id)}

\* C7: every upload of summarize-live-audio for a task goes to the key
\* temp_audio/{taskId}.webm, so at most one remote object exists per task.
C7_OneObjectPerTask ==
  \A id \in TaskIds :
    /\ Cardinality(ObjectsOf(id)) <= 1
    /\ \A o \in ObjectsOf(id) : o.key = <<"temp_audio", id, "webm">>

\* the object of a task has been uploaded at least twice
C7_Witness ==
  \E o \in ObjectsOf("t1") : o.puts >= 2

\* the error with which the poll loop gives up
TimeoutError == AudioToTextError(<<"transcription job timed out">>)

\* C8: the poll loop never issues more than 30 status queries, it gives up
\* with the timeout error after exactly 30 queries none of which reported
\* SUCCEEDED or FAILED, and a handler that polls always leaves the loop.
C8_PollTerminates ==
  /\ [](\A r \in Reqs :
          /\ req[r].attempts <= maxAttempts
          /\ req[r].err = TimeoutError
               => req[r].attempts = maxAttempts /\ req[r].reply = NoReply)
  /\ \A r \in Reqs : (req[r].pc = "poll") ~> (req[r].pc # "poll")

\* the task has been marked failed after 30 queries without a result
C8_Witness ==
  /\ req["r1"].op = "process-audio-summary" /\ req["r1"].pc = "done"
  /\ req["r1"].attempts = maxAttempts
  /\ req["r1"].err = TimeoutError
  /\ "t1" \in DOMAIN tasks
  /\ tasks["t1"].status = "failed"
  /\ ContainsText(tasks["t1"].summary, TimeoutError)

\* C9: once a status query of process-with-known-url has returned FAILED
\* with message m the handler issues no further query, the error it throws
\* carries m, it answers 500, and the stored record of the task then has
\* status failed and a summary that contains m.
C9_JobFailureRecorded ==
  [][\A r \in Reqs :
       LET q == req'[r] IN
       (q.op = "process-audio-summary" /\ q.reply.status = "FAILED") =>
         /\ q.pc \in {"catch", "done"}
         /\ req[r].reply.status = "FAILED" => q.attempts = req[r].attempts
         /\ ContainsText(q.err, <<q.reply.message>>)
         /\ Answers(r, "process-audio-summary") =>
              /\ q.code = 500
              /\ q.id \in DOMAIN tasks' =>
                   /\ tasks'[q.id].status = "failed"
                   /\ ContainsText(tasks'[q.id].summary, <<q.reply.message>>)]_vars

\* the first status query returned FAILED "bad audio" and the task is failed
C9_Witness ==
  /\ req["r1"].op = "process-audio-summary" /\ req["r1"].pc = "done"
  /\ req["r1"].reply = [status |-> "FAILED", message |-> "bad audio"]
  /\ req["r1"].attempts = 1
  /\ "t1" \in DOMAIN tasks
  /\ tasks["t1"].status = "failed"
  /\ ContainsText(tasks["t1"].summary, <<"bad audio">>)

\* C10: when the handler has answered after its transcription job reported
\* FAILED, a delete of the task's remote object has been issued.
C10_DeleteIssuedOnJobFailure ==
  \A r \in Reqs :
    (req[r].pc = "done" /\ req[r].reply.status = "FAILED")
      => <<"temp_audio", req[r].id, "webm">> \in ossDeleted

\* every character of s is white space
OnlyWhiteSpace(s) == \A k \in 1..Len(s) : s[k] \in WhiteSpace

\* t is s without the white space at its two ends
IsTrimOf(t, s) ==
  /\ t # <<>>
  /\ t[1] \notin WhiteSpace /\ t[Len(t)] \notin WhiteSpace
  /\ \E k \in 0..(Len(s) - Len(t)) :
       /\ SubSeq(s, k + 1, k + Len(t)) = t
       /\ OnlyWhiteSpace(SubSeq(s, 1, k))
       /\ OnlyWhiteSpace(SubSeq(s, k + Len(t) + 1, Len(s)))

\* C11: for every result of a SUCCEEDED job the extraction returns the
\* extracted text without the white space at its ends or, when nothing but
\* white space was extracted, the fallback text; it never returns the empty
\* text.
C11_NeverEmptyText ==
  extraction.pc = "done" =>
    /\ extraction.out # <<>>
    /\ IF OnlyWhiteSpace(extraction.transcriptionText)
         THEN extraction.out = NoTextRecognized
         ELSE IsTrimOf(extraction.out, extraction.transcriptionText)

\* two entries whose texts are white space only gave the fallback text
C11_Witness ==
  /\ extraction.pc = "done"
  /\ Len(extraction.results) = 2
  /\ extraction.transcriptionText # <<>>
  /\ OnlyWhiteSpace(extraction.transcriptionText)
  /\ extraction.out = NoTextRecognized

\* s holds a direct field of an entry that carries a transcription_url
HasShadowed(s) ==
  \E k \in 1..Len(s) : s[k] \in {ShadowedText[1], ShadowedSentence[1]}

CallBegins(c) == acquire[c].pc = "idle" /\ acquire'[c].pc # "idle"

\* C13 as stated: once a resolution has failed (the singleton is initialized
\* and holds no client) a call returns the cached 'unavailable' at once and
\* reads neither the environment nor the stored document.
C13_FailureCached ==
  [][\A c \in Callers :
       (CallBegins(c) /\ ossClientInitialized /\ ossClientInstance = NoClient)
         => /\ acquire'[c].pc = "returned"
            /\ acquire'[c].result = NoClient
            /\ ~acquire'[c].resolved]_vars

\* C13 as amended: a failed resolution is not cached.  A call that begins
\* while no client is cached reads the environment again and, when the
\* environment is incomplete, goes on to read the stored document; no call
\* answers 'unavailable' from the cache.
C13_FailureNotCached ==
  /\ [][\A c \in Callers :
          (CallBegins(c) /\ ossClientInstance = NoClient)
            => /\ acquire'[c].resolved
               /\ acquire'[c].ossConfig = ossEnv
               /\ Complete(ossEnv) \/ acquire'[c].pc = "readFile"]_vars
  /\ [](\A c \in Callers :
          (acquire[c].pc = "returned" /\ acquire[c].result = NoClient)
            => acquire[c].resolved)

\* one call found the store unavailable, a later one built a client from the
\* document stored in between
C13_Witness ==
  /\ acquire["a1"].pc = "returned" /\ acquire["a1"].result = NoClient
  /\ acquire["a1"].resolved
  /\ acquire["a2"].pc = "returned" /\ acquire["a2"].result = Client(1, acquire["a2"].ossConfig)
  /\ acquire["a2"].resolved
  /\ acquire["a2"].fileConfig = ConfigFile("file1")
  /\ ~afterReset

\* C14: while a client is cached and no reset happens the cached handle stays
\* the same, and every call that begins returns it without resolving the
\* configuration.
C14_CachedClientKept ==
  [][(CacheHit(ossClientInstance, ossClientInitialized) /\ ossClientInitialized')
       => /\ ossClientInstance' = ossClientInstance
          /\ \A c \in Callers :
               CallBegins(c) => /\ acquire'[c].pc = "returned"
                                /\ acquire'[c].result = ossClientInstance
                                /\ ~acquire'[c].resolved]_vars

\* C15: every setting of a client that a call returns is the environment's
\* value whenever the environment has a value for it.
C15_EnvironmentPrecedence ==
  \A c \in Callers :
    (acquire[c].pc = "returned" /\ acquire[c].result # NoClient)
      => \A f \in OssFields : ossEnv[f] # "" => acquire[c].result.config[f] = ossEnv[f]

\* C16: the first call that begins after a reset resolves the configuration.
C16_ResetForcesResolution ==
  [][\A c \in Callers : (CallBegins(c) /\ afterReset) => acquire'[c].resolved]_vars

\* C18: a client handle is constructed only while no client is cached.
C18_SingleFlight ==
  [][ossConstructed' > ossConstructed => ossClientInstance = NoClient]_vars

\* the store is unavailable for the handler in slot r: the value it got from
\* createOSSClient is null, or the Promise it got has resolved to null
StoreUnavailable(r) ==
  \/ req[r].client = NoClient /\ req[r].caller = "-" /\ req[r].op = "uploadFileToOSS"
  \/ /\ req[r].caller # "-"
     /\ acquire[req[r].caller].pc = "returned"
     /\ acquire[req[r].caller].result = NoClient

\* C17: a handler that has answered while the store was unavailable answered
\* the configuration error and has called no store method on the value it
\* got from createOSSClient.
C17_SentinelChecked ==
  \A r \in Reqs :
    (req[r].pc = "done" /\ StoreUnavailable(r))
      => /\ req[r].err = <<"OSS configuration incomplete">>
         /\ req[r].invoked = "none"

\* the prefix uploadFileToOSS puts before every error of its try block
UploadErrorPrefix == <<"upload to OSS failed: ">>

\* C19: a finished call of uploadFileToOSS has thrown, returned no URL and
\* issued no put when the local file is missing (the upload error, when a
\* client was there to upload with); has thrown the upload error and returned
\* no URL when the put it issued failed; and when it returned, it returned the
\* URL of the object at its key, which holds the local file with public-read
\* visibility.
C19_UploadOutcome ==
  /\ [](\A r \in Reqs :
         LET q == req[r] IN
         (q.op = "uploadFileToOSS" /\ q.pc = "done")
           => /\ q.file \notin audioDir
                   => /\ q.code = 500 /\ q.err # Undefined /\ q.url = Undefined
                      /\ q.invoked = "none"
                      /\ q.client # NoClient => ContainsText(q.err, UploadErrorPrefix)
              /\ (q.code = 500 /\ q.invoked = "put")
                   => /\ q.url = Undefined
                      /\ q.err = UploadErrorPrefix \o <<NetError>>
              /\ q.code = 200
                   => /\ q.err = Undefined
                      /\ q.url = ObjectUrl(q.client, q.key)
                      /\ q.client.kind = "client" /\ q.file \in audioDir)
  /\ [][\A r \in Reqs :
          Answers(r, "uploadFileToOSS")
            => IF req'[r].code = 200
                 THEN \E o \in ossObjects' :
                        /\ o.key = req'[r].key /\ o.src = req'[r].file
                        /\ o.acl = "public-read"
                 ELSE ossObjects' = ossObjects]_vars

\* one call failed for a missing local file although a client was there,
\* another call uploaded the file that exists
C19_Witness ==
  /\ req["r1"].op = "uploadFileToOSS" /\ req["r1"].pc = "done"
  /\ req["r1"].file \notin audioDir /\ req["r1"].client.kind = "client"
  /\ req["r1"].code = 500 /\ req["r1"].invoked = "none"
  /\ req["r2"].op = "uploadFileToOSS" /\ req["r2"].pc = "done"
  /\ req["r2"].code = 200 /\ req["r2"].url = ObjectUrl(req["r2"].client, req["r2"].key)

\* the error of a call that finds no temp file
MergeNotFound == <<"merge audio files failed: ", "temp audio file does not exist">>

\* C20: a call mergeAudioFiles(id) that finds the temp file and no canonical
\* file leaves the files as a rename of temp to canonical does; one that
\* finds both leaves canonical = old canonical bytes followed by the temp
\* bytes and no temp file; both return the canonical name and touch no other
\* file.  A call for an id whose merge has completed throws the not-found
\* error and leaves every file as it is.
C20_MergeRelations ==
  [][\A r \in Reqs :
       Answers(r, "mergeAudioFiles")
         => LET id == req'[r].id
                temp == TempFile(id)
                final == CanonicalFile(id) IN
            /\ (temp \in DOMAIN audioData /\ final \notin DOMAIN audioData)
                  => /\ audioData' = Rename(audioData, temp, final)
                     /\ req'[r].code = 200 /\ req'[r].url = final
            /\ (temp \in DOMAIN audioData /\ final \in DOMAIN audioData)
                  => /\ audioData'[final] = audioData[final] \o audioData[temp]
                     /\ temp \notin DOMAIN audioData'
                     /\ DOMAIN audioData' = (DOMAIN audioData) \ {temp}
                     /\ \A f \in (DOMAIN audioData') \ {final} : audioData'[f] = audioData[f]
                     /\ req'[r].code = 200 /\ req'[r].url = final
            /\ (\E r2 \in Reqs : /\ req[r2].op = "mergeAudioFiles" /\ req[r2].pc = "done"
                                  /\ req[r2].id = id /\ req[r2].code = 200)
                  => /\ req'[r].code = 500 /\ req'[r].err = MergeNotFound
                     /\ audioData' = audioData]_vars

\* a merge appended the temp bytes to an existing canonical file, and a second
\* call for the same task failed with the not-found error and changed nothing
C20_Witness ==
  /\ req["r1"].op = "mergeAudioFiles" /\ req["r1"].pc = "done" /\ req["r1"].code = 200
  /\ DOMAIN req["r1"].before = {TempFile("t1"), CanonicalFile("t1")}
  /\ req["r1"].before[CanonicalFile("t1")] = <<1>>
  /\ req["r1"].before[TempFile("t1")] = <<2>>
  /\ req["r2"].op = "mergeAudioFiles" /\ req["r2"].pc = "done" /\ req["r2"].code = 500
  /\ req["r2"].id = "t1" /\ req["r2"].err = MergeNotFound
  /\ DOMAIN req["r2"].before = {CanonicalFile("t1")}
  /\ audioData = req["r2"].before
  /\ audioData[CanonicalFile("t1")] = <<1, 2>>

\* the set of file names is the domain of the contents
FilesConsistent == audioDir = DOMAIN audioData

\* the files named `${id}.<ext>`
NamedAfter(files, id) == {f \in files : \E ext \in {"webm", "mp3"} : f = <<id, ext>>}

StopRecordingNotFound == <<"recorded audio file not found">>

\* C21: when stopLiveRecording runs for a task and the directory holds files
\* named after the task, one of them becomes `${id}.webm` with the bytes it
\* had, no other file changes, and the handler answers 200; when there is no
\* such file the call throws the not-found error and the directory is as it
\* was; the handler's catch then leaves the directory alone, stores the task
\* as failed and answers 500.
C21_Finalize ==
  [][\A r \in Reqs :
       /\ (req[r].op = "stop-recording" /\ req[r].pc = "finalize" /\ req'[r].pc # "finalize")
            => LET id == req[r].id
                   found == NamedAfter(DOMAIN audioData, id) IN
               IF found # {}
                 THEN /\ \E f \in found :
                           /\ audioData'[CanonicalFile(id)] = audioData[f]
                           /\ DOMAIN audioData' =
                                ((DOMAIN audioData) \ {f}) \cup {CanonicalFile(id)}
                           /\ \A g \in (DOMAIN audioData') \ {CanonicalFile(id)} :
                                audioData'[g] = audioData[g]
                      /\ req'[r].pc = "done" /\ req'[r].code = 200
                 ELSE /\ audioData' = audioData
                      /\ req'[r].pc = "catch" /\ req'[r].err = StopRecordingNotFound
       /\ (req[r].op = "stop-recording" /\ req[r].pc = "catch" /\ req'[r].pc # "catch"
             /\ req[r].err = StopRecordingNotFound)
            => /\ audioData' = audioData
               /\ TaskExists(req[r].id)'
               /\ tasks'[req[r].id].status = "failed"
               /\ req'[r].pc = "done" /\ req'[r].code = 500]_vars

\* the recording found under another extension became the canonical file,
\* next to the temp file of the task, which was not taken for the recording
C21_Witness ==
  /\ req["r1"].op = "stop-recording" /\ req["r1"].pc = "done" /\ req["r1"].code = 200
  /\ DOMAIN req["r1"].before = {<<"t1", "mp3">>, TempFile("t1")}
  /\ req["r1"].before[<<"t1", "mp3">>] = <<2>>
  /\ req["r1"].before[TempFile("t1")] = <<1>>
  /\ DOMAIN audioData = {CanonicalFile("t1"), TempFile("t1")}
  /\ audioData[CanonicalFile("t1")] = <<2>>

\* the operations that run more than one stage
StagedOps == {"process-webpage", "generate-audio-summary", "process-audio-summary"}

\* the handler in slot r has begun its first stage and has not answered
InStage(r) ==
  req[r].op \in StagedOps /\ req[r].pc \notin {"idle", "done"} /\ req[r].task # NoTask

\* C22: while a pipeline operation is between its stages the stored record
\* is the handler's own copy, with status processing and the outputs of the
\* stages finished so far, so that is what a crash leaves; a crash changes no
\* record; and while no handler is in flight a record changes only in a step
\* in which a request for that task arrives.
C22_CrashStrandsProcessing ==
  /\ [](\A r \in Reqs :
         InStage(r) => /\ TaskExists(req[r].id)
                       /\ tasks[req[r].id] = req[r].task
                       /\ tasks[req[r].id].status = "processing")
  /\ [][/\ ((\E r \in Reqs : InStage(r)) /\ (\A r \in Reqs : req'[r] = Idle))
            => tasks' = tasks
         /\ \A id \in DOMAIN tasks :
              (\A r \in Reqs : req[r].pc \in {"idle", "done"})
                => \/ id \in DOMAIN tasks' /\ tasks'[id] = tasks[id]
                   \/ \E r \in Reqs : req[r].pc = "idle" /\ req'[r].pc # "idle"
                                       /\ req'[r].id = id]_vars

\* after a crash between fetch and summarization: no handler is in flight and
\* the webpage task is stored as processing with the fetched text and no
\* summary
C22_Witness ==
  /\ \A r \in Reqs : req[r] = Idle
  /\ TaskExists("t1")
  /\ tasks["t1"].type = "webpage" /\ tasks["t1"].status = "processing"
  /\ tasks["t1"].content = PageText /\ tasks["t1"].summary = Undefined

\* the six pipeline-triggering operations
TriggerOps == {"start-recording", "stop-recording", "recording-failed",
               "process-webpage", "generate-audio-summary", "process-audio-summary"}

\* C23: in the step in which a pipeline-triggering operation answers 500
\* for a task that has a stored record, that record has status failed and a
\* summary that contains the message of the error answered.
C23_FailureWrittenBefore500 ==
  [][\A r \in Reqs :
       (/\ req[r].pc # "done" /\ req'[r].pc = "done"
        /\ req'[r].op \in TriggerOps /\ req'[r].code = 500
        /\ req'[r].id \in DOMAIN tasks')
         => /\ tasks'[req'[r].id].status = "failed"
            /\ ContainsText(tasks'[req'[r].id].summary, req'[r].err)]_vars

\* summarize-live-audio has answered 500 for a task whose upload found the
\* store unconfigured; the record is failed and names that cause
C23_Witness ==
  /\ req["r1"].op = "generate-audio-summary" /\ req["r1"].pc = "done"
  /\ req["r1"].code = 500 /\ req["r1"].err = <<"OSS configuration incomplete">>
  /\ TaskExists("t1") /\ tasks["t1"].status = "failed"
  /\ tasks["t1"].summary = <<"summary generation failed: ", "OSS configuration incomplete">>

\* C24: no task is stored as completed with a content that holds the message
\* of a failed fetch of a secondary result URL.
C24_FetchErrorNotSwallowed ==
  \A id \in DOMAIN tasks :
    tasks[id].status = "completed"
      => ~ContainsText(tasks[id].content, TranscriptFetchFailed)

\* C25: a pipeline-triggering operation that has answered after readTask
\* found no record for its id has answered 404.
C25_MissingTaskIs404 ==
  \A r \in Reqs :
    (req[r].op \in TriggerOps /\ req[r].pc = "done" /\ req[r].err = ReadTaskError)
      => req[r].code = 404

\* what the store and the audio directory hold for one task: its record
\* and its canonical audio file
TaskView(id) ==
  <<IF id \in DOMAIN tasks THEN <<tasks[id]>> ELSE <<>>,
    IF CanonicalFile(id) \in DOMAIN audioData
      THEN <<audioData[CanonicalFile(id)]>> ELSE <<>>>>

\* the task a step in slot r works for
Addressed(r) == IF req[r].pc = "idle" THEN req'[r].id ELSE req[r].id

Untouched(task) ==
  [task EXCEPT !.status = "-", !.content = Undefined, !.summary = Undefined]

\* C27: writes to one task are not serialized: every write of a
\* summarize-webpage in flight stores the snapshot the handler read when it
\* started, whatever the store holds by then, so the write of a PUT that
\* came in between is overwritten
C27_StaleSnapshotWritten ==
  [][\A r \in Reqs :
       (/\ req[r].op = "process-webpage" /\ req[r].pc \in {"fetch", "summarize"}
        /\ req'[r].pc \in {"summarize", "done"} /\ req'[r].pc # req[r].pc)
         => /\ req[r].id \in DOMAIN tasks'
            /\ Untouched(tasks'[req[r].id]) = Untouched(req[r].task)]_vars

\* a lost update: a PUT that made t1 a video task was answered 200 and a
\* summarize-webpage was answered 200, and the stored document is the
\* webpage task again; served one after the other, either the summarize
\* would have answered 400 or the document would be the PUT's
C27_Witness ==
  \E r, p \in Reqs :
    /\ req[r].pc = "done" /\ req[r].op = "process-webpage" /\ req[r].code = 200
    /\ req[p].pc = "done" /\ req[p].op = "update-task" /\ req[p].code = 200
    /\ TaskExists("t1") /\ tasks["t1"].type = "webpage"
    /\ tasks["t1"].status = "completed" /\ tasks["t1"].summary = LLMSummary

\* the ways the poll loop of slot r ends or goes on in one step
PollLoopExit(r) ==
  LET q == req[r]
      n == req'[r] IN
  \/ /\ n.pc = "poll" /\ PollAgain(q.attempts) /\ n.attempts = q.attempts + 1
     /\ n = [q EXCEPT !.attempts = n.attempts]
  \/ n.pc = "extract" /\ n.reply.status = "SUCCEEDED"
  \/ n.pc = "catch" /\ n.reply.status = "FAILED"
     /\ n.err = AudioToTextError(TranscriptionFailed(n.reply.message))
  \/ n.pc = "catch" /\ n.err = AudioToTextError(<<NetError>>)
  \/ n.pc = "catch" /\ q.attempts = maxAttempts
     /\ n.err = AudioToTextError(<<"transcription job timed out">>)

\* C28: nothing cancels a poll loop in flight: while slot r polls, the next
\* status query or the timeout is always possible whatever other requests
\* did to the task, and a step either leaves the slot as it is or is a
\* step of its own loop: another query, SUCCEEDED, FAILED, a failed status
\* query or the ceiling of 30 attempts
C28_PollNotCancelled ==
  /\ [](\A r \in Reqs :
          (req[r].op = "process-audio-summary" /\ req[r].pc = "poll")
            => ENABLED (ProcessAudioSummaryPoll(r) \/ ProcessAudioSummaryTimeout(r)))
  /\ [][\A r \in Reqs :
          (req[r].op = "process-audio-summary" /\ req[r].pc = "poll")
            => (req'[r] = req[r] \/ PollLoopExit(r))]_vars

\* the loop of slot r1 has reached its ceiling although the task was
\* deleted under it and a capture-failed request for it was answered
C28_Witness ==
  /\ req["r1"].op = "process-audio-summary" /\ req["r1"].pc = "poll"
  /\ req["r1"].attempts = maxAttempts
  /\ ~TaskExists("t1")
  /\ req["r2"].op = "recording-failed" /\ req["r2"].pc = "done"

\* C29: DELETE removes the document of the task and nothing else: the
\* files of the audio directory and the remote objects stay as they are, the
\* answer is 204, and for an id without document nothing changes at all
C29_DeleteRemovesOnlyRecord ==
  [][\A r \in Reqs :
       (req[r].pc = "idle" /\ req'[r].op = "delete-task")
         => LET id == req'[r].id IN
            /\ req'[r].pc = "done" /\ req'[r].code = 204
            /\ tasks' = [k \in DOMAIN tasks \ {id} |-> tasks[k]]
            /\ (~TaskExists(id) => tasks' = tasks)
            /\ UNCHANGED <<audioDir, audioData, ossObjects, ossDeleted>>]_vars

\* the document of t1 is deleted while its canonical audio file and its
\* remote object are still there
C29_Witness ==
  /\ req["r1"].pc = "done" /\ req["r1"].op = "delete-task" /\ req["r1"].code = 204
  /\ ~TaskExists("t1")
  /\ CanonicalFile("t1") \in DOMAIN audioData
  /\ \E o \in ossObjects : o.key = <<"temp_audio", "t1", "webm">>

LLMConfigError == <<"call LLM failed: ", "LLM config incomplete">>
LLMEmptyError == <<"call LLM failed: ", "LLM returned no content">>

\* one of the three fields of the configuration is missing
Incomplete(config) ==
  config.baseUrl = NoValue \/ config.model = NoValue \/ config.apiKey = NoValue

\* C30: the summarization client fails with the configuration error, and
\* sends nothing, when baseUrl, model or apiKey is missing; when the
\* endpoint answers non-2xx it fails with an error that holds the status and
\* the body; when a 2xx answer has no choices it fails with the
\* empty-response error; when a 2xx answer has choices it returns the
\* content of the first one
C30_SummarizationClient ==
  \A r \in Reqs :
    (req[r].op = "generateSummaryWithLLM" /\ req[r].pc = "done")
      => LET config == req[r].file
             answer == req[r].reply
             out == req[r].before IN
         /\ Incomplete(config)
              => (~out.ok /\ ~out.posted /\ out.text = LLMConfigError)
         /\ (~Incomplete(config) /\ answer # NoAnswer /\ ~Is2xx(answer.status))
              => /\ ~out.ok /\ out.posted
                 /\ ContainsText(out.text, <<answer.status>>)
                 /\ ContainsText(out.text, <<answer.body>>)
         /\ (~Incomplete(config) /\ Is2xx(answer.status) /\ answer.choices = <<>>)
              => (~out.ok /\ out.text = LLMEmptyError)
         /\ (~Incomplete(config) /\ Is2xx(answer.status) /\ answer.choices # <<>>)
              => (out.ok /\ out.text = answer.choices[1])

\* the client was called without a model name (URL and key present) and
\* failed without a request
C30_Witness ==
  /\ req["r1"].op = "generateSummaryWithLLM" /\ req["r1"].pc = "done"
  /\ req["r1"].file.model = NoValue
  /\ req["r1"].file.baseUrl # NoValue /\ req["r1"].file.apiKey # NoValue
  /\ ~req["r1"].before.posted

\* ---------------------------------------------------------------------
\* the task page of the UI (CrawlerManager): one mediaRecorderRef, one
\* audioChunksRef and one currentTaskIdRef for all the tasks of the page.
\* A recorder is named by the task id startBrowserRecording was called
\* with, which is the taskId its onstop handler has closed over.

\* a request the page has sent to the server; ui.sent holds the requests
\* of the handler that ran last, ui.last
UiMessage(op, id, chunks) == [op |-> op, id |-> id, chunks |-> chunks]

\* taskStorage.recordingFailed(currentTaskIdRef.current), guarded by
\* if (currentTaskIdRef.current)
ReportFailed(u) ==
  IF u.currentTaskIdRef = "null" THEN u
  ELSE [u EXCEPT !.sent = @ \cup {UiMessage("recording-failed", u.currentTaskIdRef, <<>>)},
                 !.isRecording[u.currentTaskIdRef] = FALSE]

\* the ways a call of startBrowserRecording ends: it starts the recorder,
\* it throws before the refs are assigned (getDisplayMedia rejects, no
\* audio track, no MediaRecorder can be created), or start() throws
StartOutcomes == {"ok", "denied", "startfails"}

\* handleStartRecording(id): startBrowserRecording(id), then
\* taskStorage.startLiveRecording(id) when it did not throw
StartBrowserRecording(taskId, outcome) ==
  /\ ~ui.isRecording[taskId]
  /\ ui.recorder[taskId] \notin {"recording", "stopping"}
  /\ LET here == [handler |-> "handleStartRecording", id |-> taskId]
         assigned == [ui EXCEPT !.mediaRecorderRef = taskId,
                                !.currentTaskIdRef = taskId,
                                !.audioChunksRef = <<>>,
                                !.last = here, !.sent = {}]
     IN  ui' = CASE outcome = "ok" ->
                      [assigned EXCEPT !.recorder[taskId] = "recording",
                                       !.isRecording[taskId] = TRUE,
                                       !.sent = @ \cup {UiMessage("start-recording", taskId, <<>>)}]
                 [] outcome = "denied" ->
                      ReportFailed([ui EXCEPT !.last = here, !.sent = {}])
                 [] OTHER ->
                      ReportFailed([assigned EXCEPT !.recorder[taskId] = "inactive"])
  /\ UNCHANGED <<tasks, audioDir, llmConfig, ossFileConfig, ossEnv, ossClientInstance,
                 ossClientInitialized, ossObjects, ossDeleted, req, ossConstructed,
                 acquire, afterReset, extraction, audioData>>

\* mediaRecorder.ondataavailable of the recorder rec
DataAvailable(rec) ==
  /\ ui.recorder[rec] \in {"recording", "stopping"}
  /\ Len(ui.audioChunksRef) < MaxChunks
  /\ ui' = [ui EXCEPT !.audioChunksRef = Append(@, rec)]
  /\ UNCHANGED <<tasks, audioDir, llmConfig, ossFileConfig, ossEnv, ossClientInstance,
                 ossClientInitialized, ossObjects, ossDeleted, req, ossConstructed,
                 acquire, afterReset, extraction, audioData>>

\* handleStopRecording(id): the stop button of the task id
HandleStopRecording(id) ==
  /\ ui.isRecording[id]
  /\ LET rec == ui.mediaRecorderRef
     IN  ui' = [ui EXCEPT !.recorder =
                            IF rec # "null" /\ ui.recorder[rec] = "recording"
                            THEN [@ EXCEPT ![rec] = "stopping"] ELSE @,
                          !.last = [handler |-> "handleStopRecording", id |-> id],
                          !.sent = {}]
  /\ UNCHANGED <<tasks, audioDir, llmConfig, ossFileConfig, ossEnv, ossClientInstance,
                 ossClientInitialized, ossObjects, ossDeleted, req, ossConstructed,
                 acquire, afterReset, extraction, audioData>>

\* mediaRecorder.onstop of the recorder rec
OnStop(rec, uploadOk) ==
  /\ ui.recorder[rec] = "stopping"
  /\ LET stopped == [ui EXCEPT !.recorder[rec] = "inactive",
                               !.last = [handler |-> "onstop", id |-> rec],
                               !.sent = {}]
         upload == UiMessage("upload-audio", rec, ui.audioChunksRef)
     IN  ui' = IF ui.audioChunksRef = <<>> THEN ReportFailed(stopped)
               ELSE IF uploadOk
               THEN [stopped EXCEPT !.sent = @ \cup {upload, UiMessage("stop-recording", rec, <<>>)},
                                    !.isRecording[rec] = FALSE]
               ELSE ReportFailed([stopped EXCEPT !.sent = @ \cup {upload}])
  /\ UNCHANGED <<tasks, audioDir, llmConfig, ossFileConfig, ossEnv, ossClientInstance,
                 ossClientInitialized, ossObjects, ossDeleted, req, ossConstructed,
                 acquire, afterReset, extraction, audioData>>

NextUI ==
  \/ \E id \in TwoTasks, outcome \in StartOutcomes : StartBrowserRecording(id, outcome)
  \/ \E rec \in TwoTasks : DataAvailable(rec)
  \/ \E id \in TwoTasks : HandleStopRecording(id)
  \/ \E rec \in TwoTasks, uploadOk \in BOOLEAN : OnStop(rec, uploadOk)

SpecUI == Init /\ [][NextUI]_vars

\* C31: a GET for an id without document answers 404; a PUT whose body has
\* another id than the path answers 400 and changes no document
C31_CrudErrors ==
  [][\A r \in Reqs :
       /\ (req[r].pc = "idle" /\ req'[r].op = "get-task" /\ ~TaskExists(req'[r].id))
            => (req'[r].pc = "done" /\ req'[r].code = 404)
       /\ (req[r].pc = "idle" /\ req'[r].op = "update-task" /\ req'[r].key # req'[r].id)
            => (req'[r].pc = "done" /\ req'[r].code = 400 /\ tasks' = tasks)]_vars

\* a PUT for t1 with the document of t2 was refused while both tasks have
\* a document
C31_Witness ==
  /\ req["r1"].op = "update-task" /\ req["r1"].pc = "done"
  /\ req["r1"].id = "t1" /\ req["r1"].key = "t2" /\ req["r1"].code = 400
  /\ TaskExists("t1") /\ TaskExists("t2")

\* the text is at most 10,000 characters long, has no tag, has single
\* spaces between its words and no white space at either end
CleanText(text) ==
  /\ Chars(text) <= maxContentLength
  /\ \A i \in 1..Len(text) :
       /\ text[i].kind \in {"text", "space"}
       /\ text[i].kind = "space" => text[i].len = 1
       /\ (i < Len(text) /\ text[i].kind = "space") => text[i + 1].kind # "space"
  /\ text # <<>> => (text[1].kind # "space" /\ text[Len(text)].kind # "space")

\* C32: the content the fetch stage returns for a webpage task is at most
\* 10,000 characters long, without tags, with every run of white space
\* collapsed to one space and none at the start or the end
C32_ContentClean ==
  \A r \in Reqs :
    (req[r].op = "fetchWebPageContent" /\ req[r].pc = "done")
      => CleanText(req[r].before)

\* C33: when an accepted summarize-live-audio request has been answered,
\* the server has left the task in completed or failed: it is not in
\* processing with nothing on the server that will move it on
C33_AnsweredNotProcessing ==
  \A r \in Reqs :
    (/\ req[r].op = "generate-audio-summary" /\ req[r].pc = "done"
     /\ req[r].code = 200 /\ TaskExists(req[r].id))
      => tasks[req[r].id].status \in {"completed", "failed"}

\* C34: a pipeline request that is refused with 400 (wrong task type, no
\* canonical audio file, missing parameters, no uploaded file) changes
\* neither the task documents nor the audio directory nor the remote
\* objects
C34_RefusedChangesNothing ==
  [][\A r \in Reqs :
       (/\ req[r].pc # "done" /\ req'[r].pc = "done" /\ req'[r].code = 400
        /\ req'[r].op \in TriggerOps \cup {"upload-audio"})
         => UNCHANGED <<tasks, audioDir, audioData, ossObjects, ossDeleted>>]_vars

\* summarize-live-audio was refused for a live task without audio file and
\* the task is still pending
C34_Witness ==
  \E r \in Reqs :
    /\ req[r].op = "generate-audio-summary" /\ req[r].pc = "done" /\ req[r].code = 400
    /\ TaskExists(req[r].id) /\ tasks[req[r].id].type = "live"
    /\ tasks[req[r].id].status = "pending"
    /\ CanonicalFile(req[r].id) \notin audioDir

\* C35: a document that is not in the store appears there only by a create
\* or update request for its id: no step of a pipeline operation that was
\* in flight when the task was deleted writes it back
C35_DeletedStaysDeleted ==
  [][\A id \in TaskIds :
       (~TaskExists(id) /\ id \in DOMAIN tasks')
         => \A r \in Reqs :
              req'[r] # req[r] => req'[r].op = "update-task"]_vars

\* the bytes a are the first bytes of b
BeginsWith(b, a) == Len(a) <= Len(b) /\ SubSeq(b, 1, Len(a)) = a

\* C36: merge never loses captured audio: when the canonical file exists at
\* the start of a call, it exists after the call has returned or failed,
\* also with a file operation that failed part-way, and its content begins
\* with the bytes it had before
C36_MergeKeepsAudio ==
  [][\A r \in Reqs :
       (/\ req[r].pc = "idle" /\ req'[r].op = "mergeAudioFiles"
        /\ CanonicalFile(req'[r].id) \in DOMAIN audioData)
         => /\ CanonicalFile(req'[r].id) \in DOMAIN audioData'
            /\ BeginsWith(audioData'[CanonicalFile(req'[r].id)],
                          audioData[CanonicalFile(req'[r].id)])]_vars

\* C37: a capture-failed report is sent only for the task whose own capture
\* attempt failed: every recording-failed request a handler sends names
\* the task the handler was started for
C37_FailedReportOwnTask ==
  \A m \in ui.sent : m.op = "recording-failed" => m.id = ui.last.id

\* C38: capture sessions of different tasks do not interfere: the audio
\* uploaded under a task id was delivered by the recorder started for that
\* id, and a recorder is stopped only by the stop button of its own task
C38_SessionsApart ==
  /\ [](\A m \in ui.sent :
          m.op = "upload-audio"
            => \A i \in DOMAIN m.chunks : m.chunks[i] = m.id)
  /\ [][\A rec \in TwoTasks :
          (ui.recorder[rec] = "recording" /\ ui'.recorder[rec] = "stopping")
            => ui'.last.id = rec]_vars

\* C39: the three extractions return the same text for the same result of
\* a SUCCEEDED job and the same bodies behind its transcription_url fields
C39_SameExtraction ==
  extraction.pc = "done"
    => /\ TranscribeAudio(extraction.results) = extraction.out
       /\ TranscribeAudioOss(extraction.results) = extraction.out
====
